---- MODULE Spec2Model ----
(***************************************************************************)
(* A model of the linenoise line editor (src/linenoise.c): the edit        *)
(* buffer at byte level (UTF-8 build), the history store and the edit      *)
(* session's key dispatch.                                                 *)
(*                                                                         *)
(* Strings are sequences of byte values.  The edit buffer is the whole     *)
(* char array of the session, stale bytes behind the terminator included,  *)
(* because insert_char and remove_char move bytes inside it with memmove.  *)
(* C index i is TLA+ index i+1.                                            *)
(***************************************************************************)
EXTENDS Integers, Sequences, FiniteSets, TLC

VARIABLES
    history,          \* the entries history[0 .. history_len-1], oldest first
    history_max_len,  \* static int history_max_len
    pc,               \* "idle": no session; "edit": linenoiseEdit reads in its main loop;
                      \* "complete", "search", "meta_dot": it reads in the loop of
                      \* completeLine, of case ctrl('R'), of case SPECIAL_META_DOT;
                      \* "process_char": it is at that label with the event c;
                      \* "switch": it is at switch(c), check_special() having decoded c;
                      \* "escape": check_special() reads; "literal": case ctrl('V') reads;
                      \* "undefined": a write outside an array has stopped the program
    current,          \* struct current of the running session
    history_index,    \* linenoiseEdit's local history_index
    c,                \* linenoiseEdit's local c: the event dispatched last
    result,           \* what the last linenoise() call returned
    errno,            \* errno as linenoiseEdit leaves it
    ret,              \* the host's last history call and what it returned
    completionCallback,    \* the completion callback installed, or "NULL"
    list_all_completions,  \* static int list_all_completions
    histfile,         \* the bytes of the history file, Null while there is none
    cvec,             \* linenoiseCompletions lc: the strings lc.cvec[0 .. lc.len-1]
    loc,              \* the locals of the loop that pc names
    tty               \* the terminal: rawmode (static int rawmode), its attributes
                      \* attr, orig_termios, fails: tcgetattr/tcsetattr return -1,
                      \* and eof: its input has ended, every read fails

vars == <<history, history_max_len, pc, current, history_index, c, result, errno, ret,
          completionCallback, list_all_completions, histfile, cvec, loc, tty>>

\* what a key of the session leaves alone, the history apart
hostvars == <<history_max_len, ret, completionCallback, list_all_completions, histfile, cvec, loc>>

\* the history file, the completion list, the locals of the inner loops and the
\* terminal
subvars == <<histfile, cvec, loc, tty>>

\* the callbacks and the completion mode
compvars == <<completionCallback, list_all_completions>>

-----------------------------------------------------------------------------
(* Bounds of the model *)

\* a completion list holds at most this many strings
MaxCompletions == 4
\* size of the session's line buffer (LINENOISE_MAX_LINE, 4096 in the source)
MaxLine == 5
\* the same where the completions of example.c have to fit ("hello there")
MaxLineRotate == 13
\* the same where a completion is inserted behind a two-byte character
MaxLineComplete == 6
\* in the rotation mode the user types this many bytes at most
MaxTyped == 2
\* number of history entries, the scratch entry among them, where a session
\* searches the history or takes arguments from it
MaxSearchEntries == 3
\* the widest terminal a line is drawn on
MaxCols == 6
\* a line drawn there holds at most this many characters
MaxShown == 4
\* the host keeps the history at most this long (it lowers history_max_len first)
MaxEntries == 2
\* the same for a host that only uses the history
MaxHistory == 3

-----------------------------------------------------------------------------
(* Program constants *)

LINENOISE_DEFAULT_HISTORY_MAX_LEN == 100

TAB == 9
ENTER == 13
ESCAPE == 27
BACKSPACE == 127
SPECIAL_NONE == -1
SPECIAL_UP == -20
SPECIAL_DOWN == -21
SPECIAL_LEFT == -22
SPECIAL_RIGHT == -23
SPECIAL_DELETE == -24
SPECIAL_HOME == -25
SPECIAL_END == -26
SPECIAL_INSERT == -27
SPECIAL_PAGE_UP == -28
SPECIAL_PAGE_DOWN == -29
SPECIAL_META_DOT == -30

\* ctrl(C) is C - '@'; the argument is the letter's ASCII code
ctrl(C) == C - 64

EAGAIN == 11
ENOTTY == 25

\* a null pointer where a string is expected
Null == <<-1>>

-----------------------------------------------------------------------------
(* C strings and the UTF-8 codec (utf8.h) *)

Min(a, b) == IF a < b THEN a ELSE b

\* the byte at C index i of s; 0 behind the end
Byte(s, i) == IF i >= 0 /\ i < Len(s) THEN s[i + 1] ELSE 0

\* strlen of the C string that starts at C index off of s
RECURSIVE StrLenFrom(_, _)
StrLenFrom(s, off) == IF Byte(s, off) = 0 THEN 0 ELSE 1 + StrLenFrom(s, off + 1)

strlen(s) == StrLenFrom(s, 0)

\* the C string held by the array s: its bytes before the first 0 (strdup)
strdup(s) == SubSeq(s, 1, strlen(s))

IsCont(b) == b >= 128 /\ b < 192

\* utf8_tounicode: the scalar at C index b of s and the bytes it takes;
\* an invalid sequence yields its first byte alone
utf8_tounicode(s, b) ==
    LET s0 == Byte(s, b)
        s1 == Byte(s, b + 1)
        s2 == Byte(s, b + 2)
    IN  IF s0 < 192 THEN [uc |-> s0, n |-> 1]
        ELSE IF s0 < 224 /\ IsCont(s1)
            THEN [uc |-> (s0 - 192) * 64 + (s1 - 128), n |-> 2]
        ELSE IF s0 >= 224 /\ s0 < 240 /\ IsCont(s1) /\ IsCont(s2)
            THEN [uc |-> (s0 - 224) * 4096 + (s1 - 128) * 64 + (s2 - 128), n |-> 3]
        ELSE [uc |-> s0, n |-> 1]

\* utf8_fromunicode: the bytes of scalar uc (an unsigned short)
utf8_fromunicode(uc) ==
    LET u == uc % 65536
    IN  IF u <= 127 THEN <<u>>
        ELSE IF u <= 2047 THEN <<192 + (u \div 64), 128 + (u % 64)>>
        ELSE <<224 + (u \div 4096), 128 + ((u \div 64) % 64), 128 + (u % 64)>>

\* utf8_strlen: the scalars in bytelen bytes from C index off
RECURSIVE utf8_strlen_from(_, _, _)
utf8_strlen_from(s, off, bytelen) ==
    IF bytelen <= 0 THEN 0
    ELSE LET l == utf8_tounicode(s, off).n
         IN  1 + utf8_strlen_from(s, off + l, bytelen - l)

utf8_strlen(s, bytelen) ==
    utf8_strlen_from(s, 0, IF bytelen < 0 THEN strlen(s) ELSE bytelen)

\* utf8_index: the byte offset, from C index off, of scalar number index
RECURSIVE utf8_index_from(_, _, _)
utf8_index_from(s, off, index) ==
    IF index <= 0 THEN 0
    ELSE LET l == utf8_tounicode(s, off).n
         IN  l + utf8_index_from(s, off + l, index - 1)

utf8_index(s, index) == utf8_index_from(s, 0, index)

utf8_getchars(ch) == utf8_fromunicode(ch)

\* a char is signed: bytes from 128 compare below ' '
SChar(b) == IF b >= 128 THEN b - 256 ELSE b

-----------------------------------------------------------------------------
(* The edit buffer: struct current and its operations *)

\* the prompt the host passes to linenoise()
Prompt == <<62, 32>>

\* the width getWindowSize() stores in current->cols
WinCols == 80

ZeroBuf == [i \in 1..MaxLine |-> 0]

\* current->bufmax: the size of the array buf points to
bufmax(cur) == Len(cur.buf)

\* struct current once linenoise() has filled it in; buf is still uninitialised
\* stack memory, which set_current overwrites whole before anything reads it
NewCurrent ==
    [buf |-> ZeroBuf, len |-> 0, chars |-> 0, pos |-> 0, cols |-> 0,
     prompt |-> Prompt, capture |-> Null]

\* getWindowSize as refreshLine calls it: the ioctl answers with the width
refreshLine(cur) == [cur EXCEPT !.cols = WinCols]

\* strncpy(buf, str, bufmax); buf[bufmax-1] = 0; len = strlen(buf);
\* pos = chars = utf8_strlen(buf, len)
set_current(cur, str) ==
    LET nb == [i \in 1..bufmax(cur) |->
                 IF i <= Len(str) /\ i < bufmax(cur) THEN str[i] ELSE 0]
        l  == strlen(nb)
        n  == utf8_strlen(nb, l)
    IN  [cur EXCEPT !.buf = nb, !.len = l, !.chars = n, !.pos = n]

has_room(cur, bytes) == cur.len + bytes < bufmax(cur) - 1

get_char(cur, pos) ==
    IF pos >= 0 /\ pos < cur.chars
    THEN utf8_tounicode(cur.buf, utf8_index(cur.buf, pos)).uc
    ELSE -1

\* memmove(buf + dst, buf + src, cnt) inside the array
memmove(buf, dst, src, cnt) ==
    [i \in 1..Len(buf) |->
        IF i - 1 >= dst /\ i - 1 < dst + cnt /\ (i - dst + src) \in 1..Len(buf)
        THEN buf[i - dst + src]
        ELSE buf[i]]

\* memcpy(buf + dst, bytes, Len(bytes))
memcpy(buf, dst, bytes) ==
    [i \in 1..Len(buf) |->
        IF i - 1 >= dst /\ i - 1 < dst + Len(bytes) THEN bytes[i - dst] ELSE buf[i]]

\* the columns the fast paths of insert_char and remove_char count
FitsWithoutScroll(cur) ==
    utf8_strlen(cur.prompt, -1) + utf8_strlen(cur.buf, cur.len) < cur.cols - 1

\* remove_char taking every character for one byte
remove_char_bytewise(cur, pos) ==
    IF pos >= 0 /\ pos < cur.chars
    THEN LET p1 == utf8_index(cur.buf, pos)
             p2 == p1 + 1
         IN  [cur |-> [cur EXCEPT
                        !.buf = memmove(cur.buf, p1, p2, cur.len - p2 + 1),
                        !.len = cur.len - (p2 - p1),
                        !.chars = cur.chars - 1,
                        !.pos = IF cur.pos > pos THEN cur.pos - 1 ELSE cur.pos],
              ret |-> 1]
    ELSE [cur |-> cur, ret |-> 0]

\* remove_char: [cur, ret]; ret 1 asks for a refresh, 2 does not, 0: nothing removed
remove_char(cur, pos) ==
    IF pos >= 0 /\ pos < cur.chars
    THEN LET p1 == utf8_index(cur.buf, pos)
             p2 == p1 + utf8_index_from(cur.buf, p1, 1)
             fast == /\ cur.pos = pos + 1
                     /\ cur.pos = cur.chars
                     /\ SChar(Byte(cur.buf, pos)) >= 32
                     /\ FitsWithoutScroll(cur)
         IN  [cur |-> [cur EXCEPT
                        !.buf = memmove(cur.buf, p1, p2, cur.len - p2 + 1),
                        !.len = cur.len - (p2 - p1),
                        !.chars = cur.chars - 1,
                        !.pos = IF cur.pos > pos THEN cur.pos - 1 ELSE cur.pos],
              ret |-> IF fast THEN 2 ELSE 1]
    ELSE [cur |-> cur, ret |-> 0]

\* insert_char: [cur, ret]; ret 0: no room or pos out of range
insert_char(cur, pos, ch) ==
    LET bytes == utf8_getchars(ch)
        n == Len(bytes)
    IN  IF has_room(cur, n) /\ pos >= 0 /\ pos <= cur.chars
        THEN LET p1 == utf8_index(cur.buf, pos)
                 p2 == p1 + n
                 fast == /\ cur.pos = pos
                         /\ cur.chars = pos
                         /\ ch >= 32
                         /\ FitsWithoutScroll(cur)
             IN  [cur |-> [cur EXCEPT
                            !.buf = memcpy(memmove(cur.buf, p2, p1, cur.len - p1), p1, bytes),
                            !.len = cur.len + n,
                            !.chars = cur.chars + 1,
                            !.pos = IF cur.pos >= pos THEN cur.pos + 1 ELSE cur.pos],
                  ret |-> IF fast THEN 2 ELSE 1]
        ELSE [cur |-> cur, ret |-> 0]

\* a capture_chars that leaves the capture slot as it is
capture_chars_none(cur, pos, n) == cur

\* capture_chars: n scalars from pos replace the capture slot
capture_chars(cur, pos, n) ==
    IF pos >= 0 /\ pos + n - 1 < cur.chars
    THEN LET p1 == utf8_index(cur.buf, pos)
             nbytes == utf8_index_from(cur.buf, p1, n)
         IN  IF nbytes # 0
             THEN [cur EXCEPT !.capture = SubSeq(cur.buf, p1 + 1, p1 + nbytes)]
             ELSE cur
    ELSE cur

\* while (n-- && remove_char(current, pos)) removed++
RECURSIVE remove_loop(_, _, _, _)
remove_loop(cur, pos, n, removed) ==
    IF n = 0 THEN [cur |-> cur, ret |-> removed]
    ELSE LET r == remove_char(cur, pos)
         IN  IF r.ret = 0 THEN [cur |-> cur, ret |-> removed]
             ELSE remove_loop(r.cur, pos, n - 1, removed + 1)

remove_chars(cur, pos, n) == remove_loop(capture_chars(cur, pos, n), pos, n, 0)

\* insert_chars: the scalars of the C string str from C index off, one by one
RECURSIVE insert_loop(_, _, _, _, _)
insert_loop(cur, pos, str, off, inserted) ==
    IF Byte(str, off) = 0 THEN [cur |-> cur, ret |-> inserted]
    ELSE LET d == utf8_tounicode(str, off)
             r == insert_char(cur, pos, d.uc)
         IN  IF r.ret = 0 THEN [cur |-> cur, ret |-> inserted]
             ELSE insert_loop(r.cur, pos + 1, str, off + d.n, inserted + 1)

insert_chars(cur, pos, str) == insert_loop(cur, pos, str, 0, 0)

\* "if (op(...) == 1) refreshLine(...)" and "if (op(...)) refreshLine(...)"
RefreshIfOne(r) == IF r.ret = 1 THEN refreshLine(r.cur) ELSE r.cur

RefreshIfAny(r) == IF r.ret # 0 THEN refreshLine(r.cur) ELSE r.cur

-----------------------------------------------------------------------------
(* The display: what refreshLine and the fast paths leave on the terminal line.
   A cell holds the scalar drawn in a column, negated when drawn in reverse
   video; column 0 is the left edge *)

BLANK == 32

\* countColorControlChars: the bytes of the "\e[ ... m" sequences of prompt
RECURSIVE color_scan(_, _, _, _, _)
color_scan(prompt, i, state, len, found) ==
    LET ch == Byte(prompt, i)
    IN  IF ch = 0 THEN found
        ELSE IF state = "search_esc"
            THEN color_scan(prompt, i + 1,
                            IF ch = 27 THEN "expect_bracket" ELSE "search_esc", len, found)
        ELSE IF state = "expect_bracket"
            THEN IF ch = 91 THEN color_scan(prompt, i + 1, "expect_trail", 3, found)
                 ELSE color_scan(prompt, i + 1, "search_esc", len, found)
        ELSE IF ch = 59 \/ (ch >= 48 /\ ch <= 57)
            THEN color_scan(prompt, i + 1, "expect_trail", len + 1, found)
        ELSE color_scan(prompt, i + 1, "search_esc", len,
                        IF ch = 109 THEN found + len ELSE found)

countColorControlChars(prompt) == color_scan(prompt, 0, "search_esc", 0, 0)

\* pchars of refreshLine: the columns it takes the prompt to fill
prompt_chars(prompt) == utf8_strlen(prompt, strlen(prompt)) - countColorControlChars(prompt)

\* the first loop of refreshLine: the control characters among the first pos
\* scalars from C index b
RECURSIVE control_chars(_, _, _)
control_chars(buf, b, pos) ==
    IF pos <= 0 THEN 0
    ELSE LET d == utf8_tounicode(buf, b)
         IN  (IF d.uc < 32 THEN 1 ELSE 0) + control_chars(buf, b + d.n, pos - 1)

\* a count that takes every character for one column
cols_required_plain(cur, pchars) == pchars + utf8_strlen(cur.buf, cur.len)

\* n of refreshLine before it strips: "How many cols are required to the left of
\* 'pos'", one more if the character under the cursor is a control character
cols_required(cur, pchars) ==
    pchars + utf8_strlen(cur.buf, cur.len) + control_chars(cur.buf, 0, cur.pos)
        + (IF cur.pos < cur.chars /\ get_char(cur, cur.pos) < 32 THEN 1 ELSE 0)

\* while (n >= current->cols && pos > 0): strip characters off the front;
\* off is the C index buf has advanced to
RECURSIVE strip_front(_, _, _, _, _, _)
strip_front(buf, off, n, pos, chars, cols) ==
    IF n >= cols /\ pos > 0
    THEN LET d == utf8_tounicode(buf, off)
         IN  strip_front(buf, off + d.n, n - (IF d.uc < 32 THEN 2 ELSE 1),
                         pos - 1, chars - 1, cols)
    ELSE [off |-> off, pos |-> pos, chars |-> chars]

\* the window refreshLine draws: where it starts in buf, the cursor position and
\* the characters counted from there
refresh_window(prompt, cur) ==
    strip_front(cur.buf, 0, cols_required(cur, prompt_chars(prompt)),
                cur.pos, cur.chars, cur.cols)

\* the output loop of refreshLine from character i at C index b, n control
\* characters written so far: the cells written and backup
RECURSIVE output_loop(_, _, _, _, _, _, _, _, _)
output_loop(buf, b, i, n, w, pchars, cols, cells, backup) ==
    IF i >= w.chars THEN [cells |-> cells, backup |-> backup]
    ELSE LET d  == utf8_tounicode(buf, b)
             n2 == IF d.uc < 32 THEN n + 1 ELSE n
         IN  IF pchars + i + n2 >= cols THEN [cells |-> cells, backup |-> backup]
             ELSE IF d.uc < 32
                 THEN output_loop(buf, b + d.n, i + 1, n2, w, pchars, cols,
                                  cells \o <<-94, -(d.uc + 64)>>,
                                  IF i < w.pos THEN backup + 1 ELSE backup)
             ELSE output_loop(buf, b + d.n, i + 1, n2, w, pchars, cols,
                              cells \o <<d.uc>>, backup)

\* what the terminal shows of the prompt written to it: its scalars, the
\* "\e[ ... m" sequences taking no column
RECURSIVE prompt_cells(_, _)
prompt_cells(prompt, i) ==
    LET d == utf8_tounicode(prompt, i)
    IN  IF Byte(prompt, i) = 0 THEN <<>>
        ELSE IF d.uc = 27 /\ Byte(prompt, i + 1) = 91
            THEN LET RECURSIVE final(_)
                     final(j) == IF Byte(prompt, j) = 59
                                    \/ (Byte(prompt, j) >= 48 /\ Byte(prompt, j) <= 57)
                                 THEN final(j + 1) ELSE j
                 IN  IF Byte(prompt, final(i + 2)) = 0 THEN <<>>
                     ELSE prompt_cells(prompt, final(i + 2) + 1)
        ELSE <<d.uc>> \o prompt_cells(prompt, i + d.n)

\* the line of a terminal cols wide that holds cells from its left edge, the
\* rest erased
term_row(cells, cols) ==
    [k \in 1..cols |-> IF k <= Len(cells) THEN cells[k] ELSE BLANK]

\* the terminal line after refreshLine(prompt, current): cursorToLeft, the
\* prompt, the window, eraseEol, setCursorPos(pos + pchars + backup); written
\* is the number of columns written
Screen(prompt, cur) ==
    LET pchars == prompt_chars(prompt)
        w      == refresh_window(prompt, cur)
        out    == output_loop(cur.buf, w.off, 0, 0, w, pchars, cur.cols, <<>>, 0)
        cells  == prompt_cells(prompt, 0) \o out.cells
    IN  [row     |-> term_row(cells, cur.cols),
         written |-> Len(cells),
         cursor  |-> w.pos + pchars + out.backup]

\* the terminal writes one scalar at the cursor
term_put(scr, ch) ==
    [scr EXCEPT !.row = [k \in DOMAIN scr.row |->
                            IF k = scr.cursor + 1 THEN ch ELSE scr.row[k]],
                !.cursor = scr.cursor + 1]

\* the terminal obeys "\b"
term_back(scr) == [scr EXCEPT !.cursor = IF scr.cursor > 0 THEN scr.cursor - 1 ELSE 0]

\* the fast path of insert_char: write(current->fd, buf, n)
fast_insert(scr, ch) == [row |-> term_put(scr, ch).row, cursor |-> term_put(scr, ch).cursor]

\* the fast path of remove_char: fd_printf(current->fd, "\b \b")
fast_remove(scr) ==
    LET t == term_back(term_put(term_back(scr), BLANK))
    IN  [row |-> t.row, cursor |-> t.cursor]

-----------------------------------------------------------------------------
(* The history store *)

history_len == Len(history)

\* linenoiseHistoryAdd without the comparison with the last entry
linenoiseHistoryAdd_nodedup(h, max, line) ==
    IF max = 0 THEN [history |-> h, ret |-> 0]
    ELSE IF Len(h) = max THEN [history |-> Append(Tail(h), line), ret |-> 1]
    ELSE [history |-> Append(h, line), ret |-> 1]

\* linenoiseHistoryAdd that keeps the oldest entry when the history is full
linenoiseHistoryAdd_nodrop(h, max, line) ==
    IF max = 0 THEN [history |-> h, ret |-> 0]
    ELSE IF Len(h) > 0 /\ line = h[Len(h)] THEN [history |-> h, ret |-> 0]
    ELSE [history |-> Append(h, line), ret |-> 1]

\* linenoiseHistoryAdd that overwrites the newest entry when the history is full
linenoiseHistoryAdd_overwrite(h, max, line) ==
    IF max = 0 THEN [history |-> h, ret |-> 0]
    ELSE IF Len(h) > 0 /\ line = h[Len(h)] THEN [history |-> h, ret |-> 0]
    ELSE IF Len(h) = max
        THEN [history |-> Append(SubSeq(h, 1, Len(h) - 1), line), ret |-> 1]
    ELSE [history |-> Append(h, line), ret |-> 1]

\* linenoiseHistoryAdd on entries h with maximum max: [history, ret]
linenoiseHistoryAdd(h, max, line) ==
    IF max = 0 THEN [history |-> h, ret |-> 0]
    ELSE IF Len(h) > 0 /\ line = h[Len(h)] THEN [history |-> h, ret |-> 0]
    ELSE IF Len(h) = max THEN [history |-> Append(Tail(h), line), ret |-> 1]
    ELSE [history |-> Append(h, line), ret |-> 1]

\* linenoiseHistorySetMaxLen that copies from the start of the old array
linenoiseHistorySetMaxLen_oldest(h, max, len) ==
    IF len < 1 THEN [history |-> h, max |-> max, ret |-> 0]
    ELSE LET tocopy == IF len < Len(h) THEN len ELSE Len(h)
         IN  [history |-> SubSeq(h, 1, tocopy), max |-> len, ret |-> 1]

\* linenoiseHistorySetMaxLen: [history, max, ret]
linenoiseHistorySetMaxLen(h, max, len) ==
    IF len < 1 THEN [history |-> h, max |-> max, ret |-> 0]
    ELSE LET tocopy == IF len < Len(h) THEN len ELSE Len(h)
         IN  [history |-> SubSeq(h, Len(h) - tocopy + 1, Len(h)), max |-> len, ret |-> 1]

-----------------------------------------------------------------------------
(* Keys *)

CtrlA == ctrl(65)
CtrlB == ctrl(66)
CtrlC == ctrl(67)
CtrlD == ctrl(68)
CtrlE == ctrl(69)
CtrlF == ctrl(70)
CtrlG == ctrl(71)
CtrlH == ctrl(72)
CtrlJ == ctrl(74)
CtrlK == ctrl(75)
CtrlL == ctrl(76)
CtrlN == ctrl(78)
CtrlP == ctrl(80)
CtrlR == ctrl(82)
CtrlT == ctrl(84)
CtrlU == ctrl(85)
CtrlV == ctrl(86)
CtrlW == ctrl(87)
CtrlY == ctrl(89)

\* scalars the user types: a; and a, space, e-acute (two bytes in UTF-8)
Ascii == {97}

Printable == {97, 32, 233}

\* the lines the host adds to the history: "a", "b"
Lines == {<<97>>, <<98>>}

-----------------------------------------------------------------------------
(* linenoise() and linenoiseEdit() *)

\* no inner loop runs
NoLocals == <<>>

\* the event dispatched is one of K: fd_read() returns it in the main loop, or an
\* inner loop has left it in c and jumped to process_char
Reads(K) ==
    \/ pc = "edit" /\ c' \in K
    \/ pc \in {"process_char", "switch"} /\ c \in K /\ c' = c

\* the read has failed: fd_read() returns -1 in the main loop, or an inner loop has
\* jumped to process_char with -1, where the test for -1 stands
ReadsEOF ==
    \/ pc = "edit" /\ c' = -1
    \/ pc = "process_char" /\ c = -1 /\ c' = c

\* the host lets the history grow to MaxEntries entries at most
HistoryRoom == Len(history) < MaxEntries \/ history_max_len <= MaxEntries

\* enableRawMode() on a terminal whose calls succeed: the attributes are saved
\* in orig_termios, the terminal is put in raw mode and rawmode is set
enableRawMode(t) == [t EXCEPT !.orig_termios = t.attr, !.attr = "raw", !.rawmode = 1]

\* a disableRawMode() that restores the attributes and leaves rawmode set
disableRawMode_keep(t) ==
    IF t.rawmode # 0 /\ ~t.fails THEN [t EXCEPT !.attr = t.orig_termios]
    ELSE t

\* disableRawMode(): if (rawmode && tcsetattr(fd, TCSADRAIN, &orig_termios) != -1)
\* rawmode = 0
disableRawMode(t) ==
    IF t.rawmode # 0 /\ ~t.fails THEN [t EXCEPT !.attr = t.orig_termios, !.rawmode = 0]
    ELSE t

\* linenoiseColumns(): enableRawMode, getWindowSize, disableRawMode, whatever
\* rawmode was; on a terminal whose calls fail neither changes anything
linenoiseColumns(t) == IF t.fails THEN t ELSE disableRawMode(enableRawMode(t))

\* linenoise() up to the first read of linenoiseEdit(), in a build whose line
\* buffer has size bytes: raw mode is entered, the scratch entry is added, the
\* buffer is cleared and the line is drawn.  The host clears errno before the
\* call, to tell the reason of a NULL afterwards
linenoise(size) ==
    /\ pc = "idle"
    /\ ~tty.fails
    /\ tty' = enableRawMode(tty)
    /\ history' = linenoiseHistoryAdd(history, history_max_len, <<>>).history
    /\ current' = refreshLine(set_current(
                      [NewCurrent EXCEPT !.buf = [i \in 1..size |-> 0]], <<>>))
    /\ history_index' = 0
    /\ c' = 0
    /\ result' = Null
    /\ errno' = 0
    /\ pc' = "edit"
    /\ UNCHANGED hostvars

LinenoiseStart == HistoryRoom /\ linenoise(MaxLine)

\* linenoiseEdit() returned count with the buffer cur: linenoise() leaves raw mode,
\* frees the capture slot and returns strdup(buf), or NULL when count is -1
Return(count, cur) ==
    /\ tty' = disableRawMode(tty)
    /\ result' = IF count = -1 THEN Null ELSE strdup(cur.buf)
    /\ current' = NewCurrent
    /\ history_index' = 0
    /\ pc' = "idle"

\* the session goes on in the main loop with the buffer cur
Continue(cur) ==
    /\ current' = cur
    /\ pc' = "edit"
    /\ UNCHANGED <<result, tty>>

\* a failed read that returns -1 instead of current->len
KeyEOF_minus1 ==
    /\ ReadsEOF
    /\ Return(-1, current)
    /\ UNCHANGED <<history, hostvars, errno>>

\* fd_read() fails or reaches end of input: return current->len
KeyEOF ==
    /\ ReadsEOF
    /\ Return(current.len, current)
    /\ UNCHANGED <<history, hostvars, errno>>

\* case ENTER: the tail entry is dropped, return current->len
KeyEnter ==
    /\ Reads({ENTER})
    /\ history' = SubSeq(history, 1, Len(history) - 1)
    /\ Return(current.len, current)
    /\ UNCHANGED <<hostvars, errno>>

\* ctrl('C') that drops the tail entry as ENTER does
KeyCtrlC_pop ==
    /\ Reads({CtrlC})
    /\ errno' = EAGAIN
    /\ history' = SubSeq(history, 1, Len(history) - 1)
    /\ Return(-1, current)
    /\ UNCHANGED hostvars

\* case ctrl('C'): errno = EAGAIN; return -1
KeyCtrlC ==
    /\ Reads({CtrlC})
    /\ errno' = EAGAIN
    /\ Return(-1, current)
    /\ UNCHANGED <<history, hostvars>>

\* case BACKSPACE, ctrl('H')
KeyBackspace ==
    /\ Reads({BACKSPACE, CtrlH})
    /\ Continue(RefreshIfOne(remove_char(current, current.pos - 1)))
    /\ UNCHANGED <<history, hostvars, history_index, errno>>

\* case SPECIAL_DELETE: the character at the cursor is removed
SpecialDelete(cur) == RefreshIfOne(remove_char(cur, cur.pos))

KeyDelete ==
    /\ Reads({SPECIAL_DELETE})
    /\ Continue(SpecialDelete(current))
    /\ UNCHANGED <<history, hostvars, history_index, errno>>

\* ctrl('D') that removes the character left of the cursor
KeyCtrlD_backward ==
    /\ Reads({CtrlD})
    /\ IF current.len = 0
       THEN /\ history' = SubSeq(history, 1, Len(history) - 1)
            /\ Return(-1, current)
       ELSE /\ Continue(RefreshIfOne(remove_char(current, current.pos - 1)))
            /\ UNCHANGED <<history, history_index>>
    /\ UNCHANGED <<hostvars, errno>>

\* case ctrl('D'): on an empty line the tail entry is dropped and -1 returned;
\* otherwise the case falls through to case SPECIAL_DELETE
KeyCtrlD ==
    /\ Reads({CtrlD})
    /\ IF current.len = 0
       THEN /\ history' = SubSeq(history, 1, Len(history) - 1)
            /\ Return(-1, current)
       ELSE /\ Continue(RefreshIfOne(remove_char(current, current.pos)))
            /\ UNCHANGED <<history, history_index>>
    /\ UNCHANGED <<hostvars, errno>>

\* case SPECIAL_INSERT, and the default case for what is neither TAB nor >= ' '
KeyIgnored ==
    /\ Reads({SPECIAL_INSERT, CtrlG, 0})
    /\ Continue(current)
    /\ UNCHANGED <<history, hostvars, history_index, errno>>

\* case ctrl('W'): the word left of the cursor goes to the capture slot
DeleteWord(cur) ==
    LET RECURSIVE EatSpaces(_), EatWord(_)
        EatSpaces(p) == IF p > 0 /\ get_char(cur, p - 1) = 32 THEN EatSpaces(p - 1) ELSE p
        EatWord(p) == IF p > 0 /\ get_char(cur, p - 1) # 32 THEN EatWord(p - 1) ELSE p
        pos == EatWord(EatSpaces(cur.pos))
    IN  RefreshIfAny(remove_chars(cur, pos, cur.pos - pos))

KeyCtrlW ==
    /\ Reads({CtrlW})
    /\ Continue(DeleteWord(current))
    /\ UNCHANGED <<history, hostvars, history_index, errno>>

\* case ctrl('T'): the character under (at the end: before) the cursor is removed
\* and inserted one place to the left
Transpose(cur) ==
    IF cur.pos > 0 /\ cur.pos <= cur.chars
    THEN LET fixer == IF cur.pos = cur.chars THEN 1 ELSE 0
             ch == get_char(cur, cur.pos - fixer)
             r == remove_char(cur, cur.pos - fixer).cur
         IN  refreshLine(insert_char(r, r.pos - 1, ch).cur)
    ELSE cur

KeyCtrlT ==
    /\ Reads({CtrlT})
    /\ Continue(Transpose(current))
    /\ UNCHANGED <<history, hostvars, history_index, errno>>

\* case ctrl('B'), SPECIAL_LEFT
KeyLeft ==
    /\ Reads({CtrlB, SPECIAL_LEFT})
    /\ Continue(IF current.pos > 0
                THEN refreshLine([current EXCEPT !.pos = current.pos - 1])
                ELSE current)
    /\ UNCHANGED <<history, hostvars, history_index, errno>>

\* case ctrl('F'), SPECIAL_RIGHT
KeyRight ==
    /\ Reads({CtrlF, SPECIAL_RIGHT})
    /\ Continue(IF current.pos < current.chars
                THEN refreshLine([current EXCEPT !.pos = current.pos + 1])
                ELSE current)
    /\ UNCHANGED <<history, hostvars, history_index, errno>>

\* the step of a history key: PAGE_UP, PAGE_DOWN, UP, DOWN and their control keys
HistoryDir(key) ==
    IF key = SPECIAL_PAGE_UP THEN history_len - history_index - 1
    ELSE IF key = SPECIAL_PAGE_DOWN THEN 0 - history_index
    ELSE IF key \in {CtrlP, SPECIAL_UP} THEN 1
    ELSE -1

\* history_navigation with the history h, the index and the buffer cur: the entry
\* shown takes the buffer's text, then the index moves by dir and the entry it
\* reaches becomes the buffer
history_navigation(h, index, cur, dir) ==
    IF Len(h) > 1
    THEN LET h2 == [h EXCEPT ![Len(h) - index] = strdup(cur.buf)]
             idx == index + dir
         IN  IF idx < 0 THEN [history |-> h2, index |-> 0, cur |-> cur]
             ELSE IF idx >= Len(h) THEN [history |-> h2, index |-> Len(h) - 1, cur |-> cur]
             ELSE [history |-> h2, index |-> idx,
                   cur |-> refreshLine(set_current(cur, h2[Len(h) - idx]))]
    ELSE [history |-> h, index |-> index, cur |-> cur]

KeyHistory ==
    /\ Reads({SPECIAL_PAGE_UP, SPECIAL_PAGE_DOWN, CtrlP, SPECIAL_UP, CtrlN, SPECIAL_DOWN})
    /\ LET r == history_navigation(history, history_index, current, HistoryDir(c'))
       IN  /\ history' = r.history
           /\ history_index' = r.index
           /\ Continue(r.cur)
    /\ UNCHANGED <<hostvars, errno>>

\* case ctrl('A'), SPECIAL_HOME
KeyHome ==
    /\ Reads({CtrlA, SPECIAL_HOME})
    /\ Continue(refreshLine([current EXCEPT !.pos = 0]))
    /\ UNCHANGED <<history, hostvars, history_index, errno>>

\* case ctrl('E'), SPECIAL_END
KeyEnd ==
    /\ Reads({CtrlE, SPECIAL_END})
    /\ Continue(refreshLine([current EXCEPT !.pos = current.chars]))
    /\ UNCHANGED <<history, hostvars, history_index, errno>>

\* case ctrl('U'): the text left of the cursor goes to the capture slot
KeyCtrlU ==
    /\ Reads({CtrlU})
    /\ Continue(RefreshIfAny(remove_chars(current, 0, current.pos)))
    /\ UNCHANGED <<history, hostvars, history_index, errno>>

\* case ctrl('K'): the text from the cursor on goes to the capture slot
KeyCtrlK ==
    /\ Reads({CtrlK})
    /\ Continue(RefreshIfAny(remove_chars(current, current.pos, current.chars - current.pos)))
    /\ UNCHANGED <<history, hostvars, history_index, errno>>

\* case ctrl('Y'): the capture slot is inserted at the cursor
KeyCtrlY ==
    /\ Reads({CtrlY})
    /\ Continue(IF current.capture # Null
                THEN RefreshIfAny(insert_chars(current, current.pos, current.capture))
                ELSE current)
    /\ UNCHANGED <<history, hostvars, history_index, errno>>

\* case ctrl('L'): cols is reset and the refresh asks for the width again
KeyCtrlL ==
    /\ Reads({CtrlL})
    /\ Continue(refreshLine([current EXCEPT !.cols = 0]))
    /\ UNCHANGED <<history, hostvars, history_index, errno>>

\* default: a scalar >= ' ' is inserted at the cursor; the user types those in S
KeyInsert(S) ==
    /\ Reads(S)
    /\ Continue(RefreshIfOne(insert_char(current, current.pos, c')))
    /\ UNCHANGED <<history, hostvars, history_index, errno>>

\* check_special(fd) for the bytes seq that follow ESC at once, at least one:
\* "[" or "O" and a letter make an arrow, HOME or END; "[", a digit and "~" make
\* INSERT, DELETE, a page key, HOME or END; "." makes META_DOT; any other first
\* byte is returned itself; what is left is SPECIAL_NONE
check_special(seq) ==
    LET c1 == seq[1]
        c2 == IF Len(seq) >= 2 THEN seq[2] ELSE -1
        c3 == IF Len(seq) >= 3 THEN seq[3] ELSE -1
    IN  IF c1 = 46 THEN SPECIAL_META_DOT
        ELSE IF c1 \notin {91, 79} THEN c1
        ELSE IF c2 < 0 THEN c1
        ELSE IF c2 = 65 THEN SPECIAL_UP
        ELSE IF c2 = 66 THEN SPECIAL_DOWN
        ELSE IF c2 = 67 THEN SPECIAL_RIGHT
        ELSE IF c2 = 68 THEN SPECIAL_LEFT
        ELSE IF c2 = 70 THEN SPECIAL_END
        ELSE IF c2 = 72 THEN SPECIAL_HOME
        ELSE IF c1 = 91 /\ c2 >= 49 /\ c2 <= 56 /\ c3 = 126
        THEN (IF c2 = 50 THEN SPECIAL_INSERT
              ELSE IF c2 = 51 THEN SPECIAL_DELETE
              ELSE IF c2 = 53 THEN SPECIAL_PAGE_UP
              ELSE IF c2 = 54 THEN SPECIAL_PAGE_DOWN
              ELSE IF c2 = 55 THEN SPECIAL_HOME
              ELSE IF c2 = 56 THEN SPECIAL_END
              ELSE SPECIAL_NONE)
        ELSE SPECIAL_NONE

-----------------------------------------------------------------------------
(* Completion *)

tolower(b) == IF b >= 65 /\ b <= 90 THEN b + 32 ELSE b

\* strcasecmp(a, b) from C index i on: negative, 0 or positive
RECURSIVE strcasecmp_from(_, _, _)
strcasecmp_from(a, b, i) ==
    LET x == tolower(Byte(a, i))
        y == tolower(Byte(b, i))
    IN  IF x # y THEN x - y
        ELSE IF x = 0 THEN 0
        ELSE strcasecmp_from(a, b, i + 1)

strcasecmp(a, b) == strcasecmp_from(a, b, 0)

\* linenoiseAddCompletion that takes the slot behind the last entry
linenoiseAddCompletion_append(lc, str) == Append(lc, str)

\* linenoiseAddCompletion that walks on while strcasecmp (str, lc->cvec[i]) is 0
linenoiseAddCompletion_after(lc, str) ==
    LET hits == {i \in 1..Len(lc) : strcasecmp(str, lc[i]) < 0}
        slot == IF hits = {} THEN Len(lc) + 1
                ELSE CHOOSE i \in hits : \A j \in hits : i <= j
    IN  SubSeq(lc, 1, slot - 1) \o <<str>> \o SubSeq(lc, slot, Len(lc))

\* linenoiseAddCompletion: str takes the first slot whose entry it does not
\* follow, and the entries from there on move one slot up
linenoiseAddCompletion(lc, str) ==
    LET hits == {i \in 1..Len(lc) : strcasecmp(str, lc[i]) <= 0}
        slot == IF hits = {} THEN Len(lc) + 1
                ELSE CHOOSE i \in hits : \A j \in hits : i <= j
    IN  SubSeq(lc, 1, slot - 1) \o <<str>> \o SubSeq(lc, slot, Len(lc))

\* the commands the host's callback knows: e-acute, "aab" and "aac"
Commands == <<  <<195, 169>>, <<97, 97, 98>>, <<97, 97, 99>>  >>

IsPrefix(p, str) == Len(p) <= Len(str) /\ SubSeq(str, 1, Len(p)) = p

\* the strings a callback adds to a list: "a", "A", "b", "B", "ab"
CompStrings == {<<97>>, <<65>>, <<98>>, <<66>>, <<97, 98>>}

\* a callback adds a string to the list it was given
AddCompletion ==
    /\ pc = "idle"
    /\ Len(cvec) < MaxCompletions
    /\ \E str \in CompStrings : cvec' = linenoiseAddCompletion(cvec, str)
    /\ UNCHANGED <<history, history_max_len, pc, current, history_index, c, result, errno,
                   ret, compvars, histfile, loc, tty>>

\* freeCompletions: the list is empty again
FreeCompletions ==
    /\ pc = "idle"
    /\ cvec # <<>>
    /\ cvec' = <<>>
    /\ UNCHANGED <<history, history_max_len, pc, current, history_index, c, result, errno,
                   ret, compvars, histfile, loc, tty>>

\* the host's callback: it adds every command that starts with the word it is
\* given, in the order of its table
RECURSIVE completion_from(_, _, _)
completion_from(text, k, lc) ==
    IF k > Len(Commands) THEN lc  \* each call's list is evaluated once
    ELSE CHOOSE r \in {completion_from(text, k + 1, l) :
                          l \in {IF IsPrefix(text, Commands[k])
                                 THEN linenoiseAddCompletion(lc, Commands[k]) ELSE lc}} : TRUE

completion(text) == completion_from(text, 1, <<>>)

\* the strings of example.c: "hello", "hello there", "example here", "example
\* there", "example everywhere", "cello"
Hello == <<104, 101, 108, 108, 111>>
HelloThere == Hello \o <<32, 116, 104, 101, 114, 101>>
Example == <<101, 120, 97, 109, 112, 108, 101>>
ExampleHere == Example \o <<32, 104, 101, 114, 101>>
ExampleThere == Example \o <<32, 116, 104, 101, 114, 101>>
ExampleEverywhere == Example \o <<32, 101, 118, 101, 114, 121, 119, 104, 101, 114, 101>>
Cello == <<99, 101, 108, 108, 111>>

\* completion() of example.c: it looks at the first byte of the line buffer
\* linenoiseAddCompletion called for each string of strs in turn
RECURSIVE add_each(_, _)
add_each(lc, strs) ==
    IF strs = <<>> THEN lc
    ELSE CHOOSE r \in {add_each(l, Tail(strs)) :
                          l \in {linenoiseAddCompletion(lc, Head(strs))}} : TRUE

example_completion(buf) ==
    add_each(<<>>,
        (IF Byte(buf, 0) = 104 THEN <<Hello, HelloThere>> ELSE <<>>)
        \o (IF Byte(buf, 0) = 101 THEN <<ExampleHere, ExampleThere, ExampleEverywhere>>
            ELSE <<>>)
        \o (IF Byte(buf, 0) = 99 THEN <<Cello>> ELSE <<>>))

\* the byte index where the word that ends at byte index end starts
RECURSIVE word_start(_, _, _)
word_start(buf, i, start) ==
    IF i >= 0 /\ Byte(buf, i) # 32 THEN word_start(buf, i - 1, i) ELSE start

\* the bytes all of the two strings start with: the inner loop over j
RECURSIVE common_prefix(_, _, _)
common_prefix(comstr, other, j) ==
    IF j < Len(comstr) /\ comstr[j + 1] = Byte(other, j)
    THEN common_prefix(comstr, other, j + 1)
    ELSE SubSeq(comstr, 1, j)

\* the outer loop over the completions from number k on
RECURSIVE common_all(_, _, _)
common_all(comstr, lc, k) ==
    IF k > Len(lc) THEN comstr
    ELSE common_all(common_prefix(comstr, lc[k], 0), lc, k + 1)

\* completeLine up to the callback's return: the word that ends at the cursor is
\* copied and the installed callback fills the list
CallCompletion(cur) ==
    LET end == cur.pos
        start == word_start(cur.buf, end - 1, end)
        word == strdup(SubSeq(cur.buf, start + 1, end))
    IN  IF completionCallback = "example_completion"
        THEN example_completion(cur.buf)
        ELSE completion(word)

\* completeLine in listing mode: the word is completed to what all completions
\* start with; a single completion is followed by the append character ' ', over
\* which the cursor steps if the buffer holds it already.  current->pos, a count of
\* characters, serves as byte index for the word and for the append character.
\* The callback's completions start with the word, so that comstr + n lies
\* inside comstr.
completeLineListing(cur) ==
    LET end == cur.pos
        start == word_start(cur.buf, end - 1, end)
        n == end - start
        lc == CallCompletion(cur)
    IN  IF Len(lc) = 0 THEN cur
        ELSE LET comstr == IF Len(lc) > 1 THEN common_all(lc[1], lc, 2) ELSE lc[1]
                 ins == insert_chars(cur, cur.pos, SubSeq(comstr, n + 1, Len(comstr))).cur
                 app == IF Len(lc) # 1 THEN ins
                        ELSE IF Byte(ins.buf, ins.pos) # 32
                        THEN insert_char(ins, ins.pos, 32).cur
                        ELSE [ins EXCEPT !.pos = ins.pos + 1]
             IN  refreshLine(app)

-----------------------------------------------------------------------------
(* The history file *)

\* fgets(buf, LINENOISE_MAX_LINE, fp) at C index off of the file's bytes: the bytes
\* up to and with the next LF, LINENOISE_MAX_LINE - 1 of them at most
RECURSIVE fgets_len(_, _, _)
fgets_len(file, off, n) ==
    IF off >= Len(file) \/ n >= MaxLine - 1 THEN n
    ELSE IF file[off + 1] = 10 THEN n + 1
    ELSE fgets_len(file, off + 1, n + 1)

\* the decoding loop of linenoiseHistoryLoad over the line read, from C index src:
\* a backslash takes the next byte with it, n and r standing for LF and CR.  A
\* backslash that ends the line stores the terminator, behind which strdup reads
\* nothing.
RECURSIVE decode_from(_, _)
decode_from(line, src) ==
    IF Byte(line, src) = 0 THEN <<>>
    ELSE IF Byte(line, src) = 92
    THEN LET nx == Byte(line, src + 1)
             ch == IF nx = 110 THEN 10 ELSE IF nx = 114 THEN 13 ELSE nx
         IN  IF nx = 0 THEN <<0>> ELSE <<ch>> \o decode_from(line, src + 2)
    ELSE <<Byte(line, src)>> \o decode_from(line, src + 1)

\* the trailing LF and CR are removed
RECURSIVE trim_eol(_)
trim_eol(str) ==
    IF Len(str) > 0 /\ str[Len(str)] \in {10, 13}
    THEN trim_eol(SubSeq(str, 1, Len(str) - 1))
    ELSE str

\* linenoiseHistoryLoad from C index off of the file: each line read is decoded,
\* trimmed and added
RECURSIVE load_from(_, _, _, _)
load_from(h, max, file, off) ==
    IF off >= Len(file) THEN h
    ELSE LET n == fgets_len(file, off, 0)
             line == SubSeq(file, off + 1, off + n)
             entry == strdup(trim_eol(decode_from(line, 0)))
         IN  load_from(linenoiseHistoryAdd(h, max, entry).history, max, file, off + n)

linenoiseHistoryLoad(h, max, file) == load_from(h, max, file, 0)

\* the encoding loop of linenoiseHistorySave for one entry, LF appended
RECURSIVE encode_from(_, _)
encode_from(str, i) ==
    IF i > Len(str) THEN <<10>>
    ELSE (IF str[i] = 92 THEN <<92, 92>>
          ELSE IF str[i] = 10 THEN <<92, 110>>
          ELSE IF str[i] = 13 THEN <<92, 114>>
          ELSE <<str[i]>>) \o encode_from(str, i + 1)

\* linenoiseHistorySave: the bytes written for the entries from index j on
RECURSIVE save_from(_, _)
save_from(h, j) ==
    IF j > Len(h) THEN <<>> ELSE encode_from(h[j], 1) \o save_from(h, j + 1)

linenoiseHistorySave(h) == save_from(h, 1)

\* TAB: read in the main loop with a callback installed, and the cursor at the end
\* of the line or the listing mode on, it runs completeLine: the listing mode
\* returns 0 and the loop reads the next event; the rotation mode does so when
\* there is no completion, and else shows completion 0 and reads in its own loop.
\* Any other TAB is inserted by the default case.
KeyTab ==
    /\ Reads({TAB})
    /\ IF /\ pc = "edit"
          /\ list_all_completions # 0 \/ current.pos = current.chars
          /\ completionCallback # "NULL"
       THEN IF list_all_completions # 0
            THEN /\ Continue(completeLineListing(current))
                 /\ UNCHANGED <<cvec, loc>>
            ELSE IF Len(CallCompletion(current)) = 0
            THEN /\ Continue(current)
                 /\ UNCHANGED <<cvec, loc>>
            ELSE /\ cvec' = CallCompletion(current)
                 /\ loc' = [i |-> 0]
                 /\ pc' = "complete"
                 /\ UNCHANGED <<current, result>>
       ELSE /\ Continue(RefreshIfOne(insert_char(current, current.pos, TAB)))
            /\ UNCHANGED <<cvec, loc>>
    /\ UNCHANGED <<history, history_max_len, ret, compvars, tty, histfile, history_index, errno>>

\* TAB with the callback of a host that asks linenoiseColumns() for the width
\* and offers no completion: completeLine beeps and returns 0
KeyTabColumns ==
    /\ pc = "edit"
    /\ c' = TAB
    /\ completionCallback = "columns_completion"
    /\ list_all_completions # 0 \/ current.pos = current.chars
    /\ tty' = linenoiseColumns(tty)
    /\ current' = current
    /\ UNCHANGED <<history, history_max_len, ret, compvars, histfile, cvec, loc, history_index,
                   errno, pc, result>>

\* what the terminal shows as the line: completeLine draws completion i over the
\* buffer while i < lc.len, and the buffer itself otherwise
Displayed ==
    IF pc = "complete" /\ loc.i < Len(cvec) THEN cvec[loc.i + 1] ELSE strdup(current.buf)

\* completeLine's loop reads TAB: i = (i+1) % (lc.len+1)
CompleteTab ==
    /\ pc = "complete"
    /\ c' = TAB
    /\ loc' = [i |-> (loc.i + 1) % (Len(cvec) + 1)]
    /\ UNCHANGED <<history, history_max_len, ret, compvars, tty, histfile, history_index, errno,
                   pc, current, result, cvec>>

\* completeLine's loop reads ESC, the first byte of a special key's sequence too:
\* the loop stops with the buffer as it was, completeLine returns ESCAPE and
\* linenoiseEdit has check_special() decode the bytes seq that follow
CompleteEscape(Seqs) ==
    /\ pc = "complete"
    /\ \E seq \in Seqs : c' = check_special(seq)
    /\ cvec' = <<>>
    /\ loc' = NoLocals
    /\ pc' = "switch"
    /\ UNCHANGED <<history, history_max_len, ret, compvars, tty, histfile, history_index, errno,
                   current, result>>

\* a default case that leaves the loop without set_current()
CompleteDefault_revert(K) ==
    /\ pc = "complete"
    /\ c' \in K \ {TAB, ESCAPE, -1}
    /\ current' = current
    /\ cvec' = <<>>
    /\ loc' = NoLocals
    /\ pc' = IF c' = 0 THEN "edit" ELSE "process_char"
    /\ UNCHANGED <<history, history_max_len, ret, compvars, tty, histfile, history_index, errno,
                   result>>

\* completeLine's loop reads another event of K: completion i, if one is shown,
\* becomes the buffer; completeLine returns the event, which linenoiseEdit takes to
\* process_char unless it is 0
CompleteDefault(K) ==
    /\ pc = "complete"
    /\ c' \in K \ {TAB, ESCAPE, -1}
    /\ current' = IF loc.i < Len(cvec) THEN set_current(current, cvec[loc.i + 1])
                  ELSE current
    /\ cvec' = <<>>
    /\ loc' = NoLocals
    /\ pc' = IF c' = 0 THEN "edit" ELSE "process_char"
    /\ UNCHANGED <<history, history_max_len, ret, compvars, tty, histfile, history_index, errno,
                   result>>

\* completeLine's loop fails to read: completeLine returns -1 and linenoiseEdit
\* returns current->len
CompleteEOF ==
    /\ pc = "complete"
    /\ c' = -1
    /\ cvec' = <<>>
    /\ loc' = NoLocals
    /\ Return(current.len, current)
    /\ UNCHANGED <<history, history_max_len, ret, compvars, histfile, errno>>

-----------------------------------------------------------------------------
(* case ctrl('R'): the reverse incremental search.  loc holds the pattern rbuf
   (rlen and rchars are its length in bytes and in characters) and searchpos *)

\* char rbuf[50]
sizeof_rbuf == 50

\* strstr(): the byte offset where needle first occurs in hay, -1 for NULL
strstr(hay, needle) ==
    LET offs == {o \in 0..(Len(hay) - Len(needle)) :
                    SubSeq(hay, o + 1, o + Len(needle)) = needle}
    IN  IF offs = {} THEN -1 ELSE CHOOSE o \in offs : \A q \in offs : o <= q

\* the for loop over the history from searchpos on in direction searchdir; p is
\* the last result of strstr.  A match becomes the buffer, with the cursor at
\* the number of characters before the match, unless skipsame is set and the
\* entry is the buffer's text
RECURSIVE search_loop(_, _, _, _, _, _, _)
search_loop(h, cur, rbuf, searchpos, searchdir, skipsame, p) ==
    IF searchpos >= 0 /\ searchpos < Len(h)
    THEN LET line == h[searchpos + 1]
             off == strstr(line, rbuf)
         IN  IF off # -1 /\ ~(skipsame /\ line = strdup(cur.buf))
             THEN [cur |-> [set_current(cur, line) EXCEPT !.pos = utf8_strlen(line, off)],
                   searchpos |-> searchpos, p |-> off]
             ELSE search_loop(h, cur, rbuf, searchpos + searchdir, searchdir, skipsame, off)
    ELSE [cur |-> cur, searchpos |-> searchpos, p |-> p]

\* case ctrl('R') of the switch: the search starts with an empty pattern at the
\* tail entry and draws the line under its own prompt
KeyCtrlR ==
    /\ Reads({CtrlR})
    /\ loc' = [rbuf |-> <<>>, searchpos |-> history_len - 1]
    /\ current' = refreshLine(current)
    /\ pc' = "search"
    /\ UNCHANGED <<history, history_max_len, ret, compvars, tty, histfile, cvec, history_index,
                   errno, result>>

\* the search reads ctrl('H') or BACKSPACE: the pattern loses its last character
SearchBackspace ==
    /\ pc = "search"
    /\ c' \in {CtrlH, BACKSPACE}
    /\ LET rchars == utf8_strlen(loc.rbuf, Len(loc.rbuf))
       IN  loc' = IF rchars > 0
                  THEN [loc EXCEPT !.rbuf = SubSeq(loc.rbuf, 1, utf8_index(loc.rbuf, rchars - 1))]
                  ELSE loc
    /\ UNCHANGED <<history, history_max_len, ret, compvars, tty, histfile, cvec, history_index,
                   errno, result, pc, current>>

\* the search reads ctrl('P'), SPECIAL_UP or ctrl('R'): the previous match
SearchPrevious ==
    /\ pc = "search"
    /\ c' \in {CtrlP, SPECIAL_UP, CtrlR}
    /\ LET from == IF loc.searchpos > 0 THEN loc.searchpos - 1 ELSE loc.searchpos
           r == search_loop(history, current, loc.rbuf, from, -1, TRUE, -1)
       IN  /\ current' = refreshLine(r.cur)
           /\ loc' = [loc EXCEPT !.searchpos = r.searchpos]
    /\ UNCHANGED <<history, history_max_len, ret, compvars, tty, histfile, cvec, history_index,
                   errno, result, pc>>

\* the search reads ctrl('N') or SPECIAL_DOWN: the next match
SearchNext ==
    /\ pc = "search"
    /\ c' \in {CtrlN, SPECIAL_DOWN}
    /\ LET from == IF loc.searchpos < history_len THEN loc.searchpos + 1 ELSE loc.searchpos
           r == search_loop(history, current, loc.rbuf, from, 1, TRUE, -1)
       IN  /\ current' = refreshLine(r.cur)
           /\ loc' = [loc EXCEPT !.searchpos = r.searchpos]
    /\ UNCHANGED <<history, history_max_len, ret, compvars, tty, histfile, cvec, history_index,
                   errno, result, pc>>

\* a search that keeps the character although no entry matches
SearchInsert_keep(S) ==
    /\ pc = "search"
    /\ c' \in {k \in S : k >= 32} \ {BACKSPACE}
    /\ LET rbuf == loc.rbuf \o utf8_getchars(c')
           r == search_loop(history, current, rbuf, history_len - 1, -1, FALSE, -1)
       IN  /\ current' = refreshLine(r.cur)
           /\ loc' = [rbuf |-> rbuf, searchpos |-> r.searchpos]
    /\ UNCHANGED <<history, history_max_len, ret, compvars, tty, histfile, cvec, history_index,
                   errno, result, pc>>

\* the search reads a character >= ' ' of S: it extends the pattern, the search
\* starts again at the tail entry, and without a match the character is dropped.
\* A pattern of sizeof(rbuf) + 3 bytes is not extended.  The bytes and the
\* terminator written at rbuf[sizeof(rbuf)] and beyond are undefined behaviour:
\* the build goes on with them in the stack slots behind rbuf, or does not go on
SearchInsert(S) ==
    /\ pc = "search"
    /\ c' \in {k \in S : k >= 32} \ {BACKSPACE}
    /\ IF Len(loc.rbuf) >= sizeof_rbuf + 3
       THEN UNCHANGED <<current, loc, pc>>
       ELSE LET rbuf == loc.rbuf \o utf8_getchars(c')
                r == search_loop(history, current, rbuf, history_len - 1, -1, FALSE, -1)
            IN  /\ current' = refreshLine(r.cur)
                /\ loc' = [rbuf |-> IF r.p = -1 THEN loc.rbuf ELSE rbuf,
                           searchpos |-> r.searchpos]
                /\ \/ pc' = pc
                   \/ Len(rbuf) >= sizeof_rbuf /\ pc' = "undefined"
    /\ UNCHANGED <<history, history_max_len, ret, compvars, tty, histfile, cvec, history_index,
                   errno, result>>

\* SearchExit with the buffer kept by ctrl('G') and ctrl('C') too
SearchExit_keep(K) ==
    /\ pc = "search"
    /\ \E k \in {e \in K : e < 32} \ {CtrlH, CtrlP, SPECIAL_UP, CtrlR, CtrlN, SPECIAL_DOWN} :
          /\ c' = IF k \in {CtrlG, CtrlC, CtrlJ} THEN 0 ELSE k
          /\ current' = refreshLine(current)
    /\ loc' = NoLocals
    /\ pc' = "process_char"
    /\ UNCHANGED <<history, history_max_len, ret, compvars, tty, histfile, cvec, history_index,
                   errno, result>>

\* the search reads another event of K, a failed read (-1) among them: the loop
\* is left; ctrl('G') and ctrl('C') clear the buffer and ctrl('J') keeps it, all
\* three as event 0; the event goes to process_char
SearchExit(K) ==
    /\ pc = "search"
    /\ \E k \in {e \in K : e < 32} \ {CtrlH, CtrlP, SPECIAL_UP, CtrlR, CtrlN, SPECIAL_DOWN} :
          /\ c' = IF k \in {CtrlG, CtrlC, CtrlJ} THEN 0 ELSE k
          /\ current' = refreshLine(IF k \in {CtrlG, CtrlC} THEN set_current(current, <<>>)
                                    ELSE current)
    /\ loc' = NoLocals
    /\ pc' = "process_char"
    /\ UNCHANGED <<history, history_max_len, ret, compvars, tty, histfile, cvec, history_index,
                   errno, result>>

-----------------------------------------------------------------------------
(* case SPECIAL_META_DOT: the last argument of the previous lines.  loc holds
   index, size and ppos *)

\* the C index where the last argument of line starts: pos runs down from the
\* end while the byte before it is not a space
RECURSIVE last_arg(_, _)
last_arg(line, pos) ==
    IF pos # 0 /\ line[pos] # 32 THEN last_arg(line, pos - 1) ELSE pos

\* one pass of the loop with the history h, the buffer cur and the locals l:
\* the next older line is taken, the previous insertion is cleared with
\* remove_chars(current, ppos, current->pos), and the line's last argument is
\* inserted at the cursor
meta_dot(h, cur, l) ==
    LET index == l.index + (IF l.index < Len(h) - 1 THEN 1 ELSE 0)
        cleared == IF l.size > 0 THEN remove_chars(cur, l.ppos, cur.pos).cur ELSE cur
        line == h[Len(h) - index]
        pos == last_arg(line, Len(line))
        ppos == cleared.pos
    IN  [cur |-> refreshLine(insert_chars(cleared, ppos, SubSeq(line, pos + 1, Len(line))).cur),
         loc |-> [index |-> index, size |-> Len(line) - pos, ppos |-> ppos]]

\* case SPECIAL_META_DOT of the switch: nothing with fewer than two entries,
\* else the first pass
KeyMetaDot ==
    /\ Reads({SPECIAL_META_DOT})
    /\ IF history_len < 2
       THEN /\ Continue(current)
            /\ UNCHANGED loc
       ELSE LET r == meta_dot(history, current, [index |-> 0, size |-> 0, ppos |-> 0])
            IN  /\ current' = r.cur
                /\ loc' = r.loc
                /\ pc' = "meta_dot"
                /\ UNCHANGED result
    /\ UNCHANGED <<history, history_max_len, ret, compvars, tty, histfile, cvec, history_index,
                   errno>>

\* the loop reads SPECIAL_META_DOT again: the next pass
MetaDotAgain ==
    /\ pc = "meta_dot"
    /\ c' = SPECIAL_META_DOT
    /\ LET r == meta_dot(history, current, loc)
       IN  current' = r.cur /\ loc' = r.loc
    /\ UNCHANGED <<history, history_max_len, ret, compvars, tty, histfile, cvec, history_index,
                   errno, result, pc>>

\* the loop reads another event of K, a failed read (-1) among them: goto
\* process_char
MetaDotExit(K) ==
    /\ pc = "meta_dot"
    /\ c' \in K \ {SPECIAL_META_DOT, ESCAPE}
    /\ loc' = NoLocals
    /\ pc' = "process_char"
    /\ UNCHANGED <<history, history_max_len, ret, compvars, tty, histfile, cvec, history_index,
                   errno, result, current>>

-----------------------------------------------------------------------------
(* case ctrl('V'): the next event is inserted as it is.  pc is "literal" while
   the case waits for it *)

\* case ctrl('V') of the switch: with room for three bytes the ^V is inserted
\* and shown, and the case reads the next event
KeyCtrlV ==
    /\ Reads({CtrlV})
    /\ LET r == insert_char(current, current.pos, CtrlV)
       IN  IF has_room(current, 3) /\ r.ret # 0
           THEN /\ current' = refreshLine(r.cur)
                /\ pc' = "literal"
                /\ UNCHANGED <<result, tty>>
           ELSE Continue(current)
    /\ UNCHANGED <<history, hostvars, history_index, errno>>

\* a case ctrl('V') that removes the ^V and has the character dispatched
LiteralRead_dispatch(K) ==
    /\ pc = "literal"
    /\ c' \in {k \in K : k >= 0} \cup {-1}
    /\ current' = refreshLine(remove_char(current, current.pos - 1).cur)
    /\ pc' = "process_char"
    /\ UNCHANGED <<result, tty>>
    /\ UNCHANGED <<history, hostvars, history_index, errno>>

\* the read of case ctrl('V') yields a character of K (fd_read() decodes no
\* escape sequence), or fails (-1): the ^V is removed and the character, unless
\* the read failed, is inserted in its place
LiteralRead(K) ==
    /\ pc = "literal"
    /\ c' \in {k \in K : k >= 0} \cup {-1}
    /\ LET removed == remove_char(current, current.pos - 1).cur
       IN  Continue(refreshLine(IF c' # -1
                                THEN insert_char(removed, removed.pos, c').cur
                                ELSE removed))
    /\ UNCHANGED <<history, hostvars, history_index, errno>>

-----------------------------------------------------------------------------
(* An escape sequence that check_special() does not know, in the main loop and
   in the loops of ctrl('R') and SPECIAL_META_DOT *)

\* the main loop reads ESC and the bytes of one of Seqs, which check_special()
\* takes for SPECIAL_NONE: no case of the switch matches
KeyUnrecognised(Seqs) ==
    /\ pc = "edit"
    /\ \E seq \in Seqs : check_special(seq) = SPECIAL_NONE
    /\ c' = SPECIAL_NONE
    /\ Continue(current)
    /\ UNCHANGED <<history, hostvars, history_index, errno>>

\* the search reads them: SPECIAL_NONE is below ' ', the loop is left, and at
\* process_char the test for -1 makes linenoiseEdit return current->len
SearchUnrecognised(Seqs) ==
    /\ pc = "search"
    /\ \E seq \in Seqs : check_special(seq) = SPECIAL_NONE
    /\ c' = SPECIAL_NONE
    /\ loc' = NoLocals
    /\ Return(current.len, refreshLine(current))
    /\ UNCHANGED <<history, history_max_len, ret, compvars, histfile, cvec, errno>>

\* the loop of SPECIAL_META_DOT reads them: SPECIAL_NONE is not
\* SPECIAL_META_DOT, goto process_char, where the test for -1 stands
MetaDotUnrecognised(Seqs) ==
    /\ pc = "meta_dot"
    /\ \E seq \in Seqs : check_special(seq) = SPECIAL_NONE
    /\ c' = SPECIAL_NONE
    /\ loc' = NoLocals
    /\ Return(current.len, current)
    /\ UNCHANGED <<history, history_max_len, ret, compvars, histfile, cvec, errno>>

-----------------------------------------------------------------------------
(* fd_read(): the bytes of one event.  loc holds buf, the bytes it has read, and
   left, the bytes it has left in the terminal *)

\* utf8_charlen: the length the lead byte b announces, -1 if it is none
utf8_charlen(b) ==
    IF b < 128 THEN 1
    ELSE IF b >= 192 /\ b < 224 THEN 2
    ELSE IF b >= 224 /\ b < 240 THEN 3
    ELSE IF b >= 240 /\ b < 248 THEN 4
    ELSE -1

\* fd_read() on a terminal that holds the bytes inp and then is at end of input:
\* the event c, -1 for a failure, and the bytes read into buf
fd_read(inp) ==
    IF Len(inp) < 1 THEN [c |-> -1, buf |-> <<>>]
    ELSE LET n == utf8_charlen(inp[1])
         IN  IF n < 1 \/ n > 3 THEN [c |-> -1, buf |-> SubSeq(inp, 1, 1)]
             ELSE IF Len(inp) < n THEN [c |-> -1, buf |-> inp]
             ELSE [c |-> utf8_tounicode(SubSeq(inp, 1, n), 0).uc, buf |-> SubSeq(inp, 1, n)]

\* c = fd_read(current) in the main loop, the terminal holding one of Inputs;
\* linenoiseEdit is at process_char then
FdRead(Inputs) ==
    /\ pc = "edit"
    /\ \E inp \in Inputs :
         /\ c' = fd_read(inp).c
         /\ loc' = [buf  |-> fd_read(inp).buf,
                     left |-> SubSeq(inp, Len(fd_read(inp).buf) + 1, Len(inp))]
    /\ pc' = "process_char"
    /\ UNCHANGED <<history, history_max_len, ret, compvars, tty, histfile, cvec,
                   history_index, errno, current, result>>

-----------------------------------------------------------------------------
(* check_special() one read at a time.  pc is "escape" while it runs; loc holds
   where it stands (step), its c and its c2.  A read yields a byte, or -1 when
   fd_read_char(fd, 50) times out *)

\* linenoiseEdit reads ESC in its main loop and calls check_special()
KeyEscape ==
    /\ pc = "edit"
    /\ c' = ESCAPE
    /\ pc' = "escape"
    /\ loc' = [step |-> "first", c |-> 0, c2 |-> 0]
    /\ UNCHANGED <<history, history_max_len, ret, compvars, tty, histfile, cvec,
                   history_index, errno, current, result>>

\* check_special() returns r: linenoiseEdit goes on at switch(c)
EscReturn(r) ==
    /\ c' = r
    /\ pc' = "switch"
    /\ loc' = NoLocals

\* check_special() goes on to its next read
EscNext(step, c1, c2) ==
    /\ loc' = [step |-> step, c |-> c1, c2 |-> c2]
    /\ UNCHANGED <<c, pc>>

\* switch (c) of check_special() for the first byte c1; lseq tells that it came
\* at once
EscFirstByte(c1, lseq) ==
    IF c1 \in {91, 79}
    THEN IF ~lseq THEN EscReturn(c1) ELSE EscNext("c2", c1, 0)
    ELSE IF c1 = 46 THEN EscReturn(SPECIAL_META_DOT)
    ELSE EscReturn(c1)

\* the keys of the sequences "ESC [ c2" and "ESC O c2"
EscArrow(c2) ==
    IF c2 = 65 THEN SPECIAL_UP
    ELSE IF c2 = 66 THEN SPECIAL_DOWN
    ELSE IF c2 = 67 THEN SPECIAL_RIGHT
    ELSE IF c2 = 68 THEN SPECIAL_LEFT
    ELSE IF c2 = 70 THEN SPECIAL_END
    ELSE IF c2 = 72 THEN SPECIAL_HOME
    ELSE SPECIAL_NONE

\* the keys of the sequences "ESC [ c2 ~"
EscExtended(c2) ==
    IF c2 = 50 THEN SPECIAL_INSERT
    ELSE IF c2 = 51 THEN SPECIAL_DELETE
    ELSE IF c2 = 53 THEN SPECIAL_PAGE_UP
    ELSE IF c2 = 54 THEN SPECIAL_PAGE_DOWN
    ELSE IF c2 = 55 THEN SPECIAL_HOME
    ELSE IF c2 = 56 THEN SPECIAL_END
    ELSE SPECIAL_NONE

\* one fd_read_char(fd, 50) of check_special() yields r
EscStep(r) ==
    /\ pc = "escape"
    /\ IF loc.step \in {"first", "wait"}
       THEN IF r < 0 THEN EscNext("wait", r, 0)
            ELSE EscFirstByte(r, loc.step = "first")
       ELSE IF loc.step = "c2"
       THEN IF r < 0 THEN EscReturn(loc.c)
            ELSE IF EscArrow(r) # SPECIAL_NONE THEN EscReturn(EscArrow(r))
            ELSE IF loc.c = 91 /\ r >= 49 /\ r <= 56 THEN EscNext("c3", loc.c, r)
            ELSE EscReturn(SPECIAL_NONE)
       ELSE IF loc.step = "c3" /\ r = 126 /\ EscExtended(loc.c2) # SPECIAL_NONE
       THEN EscReturn(EscExtended(loc.c2))
       ELSE IF r = -1 \/ r = 126 THEN EscReturn(SPECIAL_NONE)
       ELSE EscNext("discard", r, loc.c2)
    /\ UNCHANGED <<history, history_max_len, ret, compvars, tty, histfile, cvec,
                   history_index, errno, current, result>>

\* the reads of check_special(): the terminal sends one of the bytes B in time,
\* or nothing for 50 ms
EscRead(B) == \E r \in B \cup {-1} : EscStep(r)

\* switch (c) with what check_special() returned for an unrecognised sequence or
\* for ESC ESC: no case matches and the default case inserts nothing
SwitchIgnored ==
    /\ pc = "switch"
    /\ c \in {SPECIAL_NONE, ESCAPE}
    /\ c' = c
    /\ Continue(current)
    /\ UNCHANGED <<history, hostvars, history_index, errno>>

-----------------------------------------------------------------------------
(* The host between two sessions *)

\* the terminal's calls start to fail (it went away) or work again
TtyFault ==
    /\ tty' = [tty EXCEPT !.fails = ~tty.fails]
    /\ UNCHANGED <<history, history_max_len, pc, current, history_index, c, result, errno,
                   ret, compvars, histfile, cvec, loc>>

\* linenoise() when enableRawMode() returns -1 with errno = ENOTTY: the line, one
\* of L, is read with fgets(); NULL at end of input
LinenoiseNoTty(L) ==
    /\ pc = "idle"
    /\ tty.fails
    /\ errno' = ENOTTY
    /\ result' \in L \cup {Null}
    /\ UNCHANGED <<history, history_max_len, pc, current, history_index, c, ret, compvars,
                   subvars>>

\* linenoiseSetListAll(1)
HostSetListAll ==
    /\ pc = "idle"
    /\ list_all_completions' = 1
    /\ UNCHANGED <<history, history_max_len, pc, current, history_index, c, result,
                   errno, ret, completionCallback, subvars>>

\* linenoiseSetCompletionCallback(completion), by a host that uses the listing mode
HostSetCompletionCallback ==
    /\ pc = "idle"
    /\ list_all_completions # 0
    /\ completionCallback' = "completion"
    /\ UNCHANGED <<history, history_max_len, pc, current, history_index, c, result,
                   errno, ret, list_all_completions, subvars>>

\* linenoiseSetCompletionCallback by a host that keeps the rotation mode: it
\* installs its table's callback or example.c's
HostSetRotationCallback ==
    /\ pc = "idle"
    /\ list_all_completions = 0
    /\ completionCallback' \in {"completion", "example_completion"}
    /\ UNCHANGED <<history, history_max_len, pc, current, history_index, c, result,
                   errno, ret, list_all_completions, subvars>>

\* linenoiseSetCompletionCallback with a callback that calls linenoiseColumns()
HostSetColumnsCallback ==
    /\ pc = "idle"
    /\ completionCallback' = "columns_completion"
    /\ UNCHANGED <<history, history_max_len, pc, current, history_index, c, result,
                   errno, ret, list_all_completions, subvars>>

\* the host asks linenoiseColumns() between two sessions
HostColumns ==
    /\ pc = "idle"
    /\ tty' = linenoiseColumns(tty)
    /\ ret' = [call |-> "linenoiseColumns", value |-> WinCols]
    /\ UNCHANGED <<history, history_max_len, pc, current, history_index, c, result,
                   errno, compvars, histfile, cvec, loc>>

\* the input ends while linenoiseEdit waits in one of its reads
InputEnds ==
    /\ pc \in {"edit", "complete", "search", "meta_dot", "literal", "escape"}
    /\ ~tty.eof
    /\ tty' = [tty EXCEPT !.eof = TRUE]
    /\ UNCHANGED <<history, history_max_len, pc, current, history_index, c, result,
                   errno, ret, compvars, histfile, cvec, loc>>

\* the history files the host loads: "a" LF "b" LF, and "b" CR LF
Files == {<<97, 10, 98, 10>>, <<98, 13, 10>>}

\* the lines and files of a host that only uses the history: "a", "b", "a b" and
\* the empty line; the files above and one with an escaped LF before "a"
HistLines == {<<97>>, <<98>>, <<97, 32, 98>>, <<>>}

HistFiles == Files \cup {<<92, 110, 97, 10>>}

\* the host adds one of the lines L; it lets the history grow to cap entries
HostHistoryAdd(L, cap) ==
    /\ pc = "idle"
    /\ Len(history) < cap \/ history_max_len <= cap
    /\ \E line \in L :
          LET r == linenoiseHistoryAdd(history, history_max_len, line)
          IN  history' = r.history /\ ret' = [call |-> "linenoiseHistoryAdd", value |-> r.ret]
    /\ UNCHANGED <<history_max_len, pc, current, history_index, c, result, errno, compvars, subvars>>

HostHistorySetMaxLen(cap) ==
    /\ pc = "idle"
    /\ \E len \in 0..cap :
          LET r == linenoiseHistorySetMaxLen(history, history_max_len, len)
          IN  /\ history' = r.history
              /\ history_max_len' = r.max
              /\ ret' = [call |-> "linenoiseHistorySetMaxLen", value |-> r.ret]
    /\ UNCHANGED <<pc, current, history_index, c, result, errno, compvars, subvars>>

\* the file exists and is read to its end: the call returns 0
HostHistoryLoad(F, cap) ==
    /\ pc = "idle"
    /\ history_max_len <= cap
    /\ \E file \in F :
          history' = linenoiseHistoryLoad(history, history_max_len, file)
    /\ ret' = [call |-> "linenoiseHistoryLoad", value |-> 0]
    /\ UNCHANGED <<history_max_len, pc, current, history_index, c, result, errno, compvars, subvars>>

\* the lines of a host whose history goes to the file: "a", a backslash, "a" LF,
\* CR, a backslash before "n", and the empty line
FileLines == {<<97>>, <<92>>, <<97, 10>>, <<13>>, <<92, 110>>, <<>>}

\* linenoiseHistorySave(filename): the file is written anew, the call returns 0
HostHistorySave ==
    /\ pc = "idle"
    /\ histfile' = linenoiseHistorySave(history)
    /\ ret' = [call |-> "linenoiseHistorySave", value |-> 0]
    /\ UNCHANGED <<history, history_max_len, pc, current, history_index, c, result, errno,
                   compvars, cvec, loc, tty>>

\* linenoiseHistoryLoad(filename) at the start of the host, the file being there
HostHistoryLoadFile ==
    /\ pc = "idle"
    /\ history = <<>>
    /\ histfile # Null
    /\ history' = linenoiseHistoryLoad(history, history_max_len, histfile)
    /\ ret' = [call |-> "linenoiseHistoryLoad", value |-> 0]
    /\ UNCHANGED <<history_max_len, pc, current, history_index, c, result, errno,
                   compvars, subvars>>

\* the host process ends and is started again: the statics have their initial
\* values, the file is what it was
HostRestart ==
    /\ pc = "idle"
    /\ history' = <<>>
    /\ history_max_len' = LINENOISE_DEFAULT_HISTORY_MAX_LEN
    /\ current' = NewCurrent
    /\ history_index' = 0
    /\ c' = 0
    /\ result' = Null
    /\ errno' = 0
    /\ ret' = [call |-> "none", value |-> 0]
    /\ completionCallback' = "NULL"
    /\ list_all_completions' = 0
    /\ UNCHANGED <<pc, subvars>>

-----------------------------------------------------------------------------

Init ==
    /\ history = <<>>
    /\ history_max_len = LINENOISE_DEFAULT_HISTORY_MAX_LEN
    /\ pc = "idle"
    /\ current = NewCurrent
    /\ history_index = 0
    /\ c = 0
    /\ result = Null
    /\ errno = 0
    /\ ret = [call |-> "none", value |-> 0]
    /\ completionCallback = "NULL"
    /\ list_all_completions = 0
    /\ histfile = Null
    /\ cvec = <<>>
    /\ loc = NoLocals
    /\ tty = [rawmode |-> 0, attr |-> "cooked", orig_termios |-> "cooked", fails |-> FALSE,
             eof |-> FALSE]

\* The session and the history: the user types ASCII, edits, walks the history
Next ==
    \/ LinenoiseStart
    \/ KeyEOF
    \/ KeyEnter
    \/ KeyCtrlC
    \/ KeyBackspace
    \/ KeyCtrlD
    \/ KeyDelete
    \/ KeyLeft
    \/ KeyHistory
    \/ KeyInsert(Ascii)
    \/ HostHistoryAdd(Lines, MaxEntries)
    \/ HostHistorySetMaxLen(MaxEntries)
    \/ HostHistoryLoad(Files, MaxEntries)

Spec == Init /\ [][Next]_vars

\* The edit buffer: the user types multi-byte text and uses every editing key
NextEdit ==
    \/ LinenoiseStart
    \/ KeyEOF
    \/ KeyEnter
    \/ KeyCtrlC
    \/ KeyBackspace
    \/ KeyCtrlD
    \/ KeyDelete
    \/ KeyIgnored
    \/ KeyCtrlW
    \/ KeyCtrlT
    \/ KeyLeft
    \/ KeyRight
    \/ KeyHome
    \/ KeyEnd
    \/ KeyCtrlU
    \/ KeyCtrlK
    \/ KeyCtrlY
    \/ KeyCtrlL
    \/ KeyInsert(Printable)

SpecEdit == Init /\ [][NextEdit]_vars

\* Completion in the listing mode: the user types, moves left and presses TAB
NextComplete ==
    \/ HostSetListAll
    \/ HostSetCompletionCallback
    \/ HistoryRoom /\ linenoise(MaxLineComplete)
    \/ KeyEnter
    \/ KeyBackspace
    \/ KeyLeft
    \/ KeyInsert(Printable)
    \/ KeyTab

SpecComplete == Init /\ [][NextComplete]_vars

\* what the user types in the rotation mode: "a", "h"
RotTyped == {97, 104}

\* the events the rotation loop reads apart from TAB and ESC: "a", ENTER,
\* BACKSPACE, ctrl('A') and NUL
RotKeys == {97, ENTER, BACKSPACE, CtrlA, 0}

\* what follows ESC: "[D" and "[C" of the arrows LEFT and RIGHT, "[H" of HOME, and
\* the "a" typed after ESC was pressed alone
EscSeqs == {<<91, 68>>, <<91, 67>>, <<91, 72>>, <<97>>}

\* Completion in the rotation mode
NextRotate ==
    \/ HostSetRotationCallback
    \/ HistoryRoom /\ linenoise(MaxLineRotate)
    \/ (pc = "edit" => current.len < MaxTyped) /\ KeyInsert(RotTyped)
    \/ current.len <= MaxTyped /\ KeyTab
    \/ CompleteTab
    \/ CompleteEscape(EscSeqs)
    \/ CompleteDefault(RotKeys)
    \/ CompleteEOF
    \/ KeyEnter
    \/ KeyBackspace
    \/ KeyLeft
    \/ KeyRight
    \/ KeyHome

SpecRotate == Init /\ [][NextRotate]_vars

\* The completion list: strings are added to a list, the list is freed
\* the lines of a host whose user searches the history: "ab", e-acute "b", "ba"
SearchLines == {<<97, 98>>, <<195, 169, 98>>, <<98, 97>>}

\* what the user types there: a, b, e-acute
SearchTyped == {97, 98, 233}

\* the events that end a search
SearchExits == {ENTER, CtrlG, CtrlJ, CtrlA, -1}

NextSearch ==
    \/ HostHistoryAdd(SearchLines, MaxSearchEntries - 1)
    \/ Len(history) < MaxSearchEntries /\ linenoise(MaxLine)
    \/ current.len < MaxTyped /\ KeyInsert(SearchTyped)
    \/ KeyCtrlR
    \/ SearchInsert(SearchTyped)
    \/ SearchBackspace
    \/ SearchPrevious
    \/ SearchNext
    \/ SearchExit(SearchExits)
    \/ KeyEnter
    \/ KeyIgnored
    \/ KeyEOF

SpecSearch == Init /\ [][NextSearch]_vars

\* the lines of a host whose user walks the history: "a" and the empty line
NavLines == {<<97>>, <<>>}

\* what the user types there: a, e-acute
NavTyped == {97, 233}

NextNav ==
    \/ HostHistoryAdd(NavLines, MaxSearchEntries - 1)
    \/ Len(history) < MaxSearchEntries /\ linenoise(MaxLine)
    \/ current.len < MaxTyped /\ KeyInsert(NavTyped)
    \/ KeyBackspace
    \/ KeyHistory
    \/ KeyEnter

SpecNav == Init /\ [][NextNav]_vars

\* the lines of a host whose user takes their last arguments: "x" and "a y"
MetaLines == {<<120>>, <<97, 32, 121>>}

\* what the user types there: a, b
MetaTyped == {97, 98}

\* the events that end the loop of SPECIAL_META_DOT
MetaExits == {ENTER, 97, -1}

NextMeta ==
    \/ HostHistoryAdd(MetaLines, MaxSearchEntries - 1)
    \/ Len(history) < MaxSearchEntries /\ linenoise(MaxLine)
    \/ (pc = "edit" => current.len < MaxTyped) /\ KeyInsert(MetaTyped)
    \/ KeyLeft
    \/ KeyMetaDot
    \/ MetaDotAgain
    \/ MetaDotExit(MetaExits)
    \/ KeyEnter
    \/ KeyEOF

SpecMeta == Init /\ [][NextMeta]_vars

\* a session on a terminal whose calls may fail at any time
NextRaw ==
    \/ HistoryRoom /\ linenoise(MaxLine)
    \/ TtyFault
    \/ LinenoiseNoTty(HistLines)
    \/ KeyInsert({97})
    \/ KeyBackspace
    \/ KeyEnter
    \/ KeyCtrlC
    \/ KeyCtrlD
    \/ KeyEOF

SpecRaw == Init /\ [][NextRaw]_vars

\* sessions of a host whose completion callback asks for the terminal's width
NextColumns ==
    \/ HostSetColumnsCallback
    \/ HostColumns
    \/ HostHistoryAdd(HistLines, MaxEntries)
    \/ HistoryRoom /\ linenoise(MaxLine)
    \/ KeyTabColumns
    \/ KeyInsert({97})
    \/ KeyBackspace
    \/ KeyEnter
    \/ KeyCtrlC
    \/ KeyEOF

SpecColumns == Init /\ [][NextColumns]_vars

NextCompletions ==
    \/ AddCompletion
    \/ FreeCompletions

SpecCompletions == Init /\ [][NextCompletions]_vars

\* The history file: the host adds lines, saves, ends, starts again and loads
NextFile ==
    \/ HostHistoryAdd(FileLines, MaxEntries)
    \/ HostHistorySave
    \/ HostRestart
    \/ HostHistoryLoadFile

SpecFile == Init /\ [][NextFile]_vars

\* The history store alone: the host adds, resizes and loads
NextHistory ==
    \/ HostHistoryAdd(HistLines, MaxHistory)
    \/ HostHistorySetMaxLen(MaxHistory)
    \/ HostHistoryLoad(HistFiles, MaxHistory)

SpecHistory == Init /\ [][NextHistory]_vars

\* the line of a host whose user tries every sub-mode: "ab"
ModeLines == {<<97, 98>>}
\* what the user types there: "a"
ModeTyped == {97}
\* the events that end a sub-mode
ModeKeys == {ENTER, TAB, CtrlC, CtrlG, SPECIAL_LEFT}
\* the bytes behind ESC that make no key: "[15~"
UnknownSeqs == {<<91, 49, 53, 126>>}

\* a session that enters the rotation of completions, the search, the loop of
\* SPECIAL_META_DOT, the literal insert and check_special()
NextModes ==
    \/ HostHistoryAdd(ModeLines, MaxSearchEntries - 1)
    \/ HostSetRotationCallback
    \/ Len(history) < MaxSearchEntries /\ linenoise(MaxLine)
    \/ (pc = "edit" => current.len < MaxTyped) /\ KeyInsert(ModeTyped)
    \/ KeyTab
    \/ CompleteTab
    \/ CompleteDefault(ModeKeys)
    \/ CompleteEOF
    \/ KeyCtrlR
    \/ SearchInsert(ModeTyped)
    \/ SearchExit(ModeKeys \cup {CtrlJ, -1})
    \/ SearchUnrecognised(UnknownSeqs)
    \/ KeyMetaDot
    \/ MetaDotExit(ModeKeys \cup {-1})
    \/ MetaDotUnrecognised(UnknownSeqs)
    \/ KeyCtrlV
    \/ LiteralRead(ModeKeys)
    \/ KeyEscape
    \/ EscRead({ENTER})
    \/ KeyUnrecognised(UnknownSeqs)
    \/ KeyEnter
    \/ KeyCtrlC
    \/ KeyLeft
    \/ KeyIgnored
    \/ KeyEOF

SpecModes == Init /\ [][NextModes]_vars

\* a line of the host that is longer than the search's pattern buffer: "aa...a"
LongLine == [i \in 1..(sizeof_rbuf + 5) |-> 97]

\* a search for a pattern that grows as long as that line
NextPattern ==
    \/ HostHistoryAdd({LongLine}, MaxEntries)
    \/ Len(history) < MaxEntries /\ linenoise(MaxLine)
    \/ KeyCtrlR
    \/ SearchInsert({97})
    \/ SearchBackspace
    \/ SearchExit({ENTER})
    \/ KeyEnter

SpecPattern == Init /\ [][NextPattern]_vars

\* the input still yields events, or linenoiseEdit has one to dispatch
HasEvent == ~tty.eof \/ pc \in {"process_char", "switch"}

\* a session whose input ends at some read: from then on every read fails
NextEOF ==
    \/ ~tty.eof /\ HostHistoryAdd(ModeLines, MaxSearchEntries - 1)
    \/ ~tty.eof /\ HostSetRotationCallback
    \/ ~tty.eof /\ Len(history) < MaxSearchEntries /\ linenoise(MaxLine)
    \/ HasEvent /\ (pc = "edit" => current.len < MaxTyped) /\ KeyInsert({97, 91})
    \/ HasEvent /\ KeyTab
    \/ ~tty.eof /\ CompleteTab
    \/ ~tty.eof /\ KeyCtrlR
    \/ ~tty.eof /\ SearchInsert(ModeTyped)
    \/ ~tty.eof /\ KeyMetaDot
    \/ ~tty.eof /\ KeyCtrlV
    \/ ~tty.eof /\ KeyEscape
    \/ ~tty.eof /\ EscRead({91})
    \/ HasEvent /\ KeyEnter
    \/ InputEnds
    \/ KeyEOF
    \/ CompleteEOF
    \/ SearchExit({-1})
    \/ MetaDotExit({-1})
    \/ LiteralRead({})
    \/ EscStep(-1)

\* linenoiseEdit runs: a read that fails returns, and an event that is there is
\* dispatched
FairEOF ==
    /\ WF_vars(KeyEOF)
    /\ WF_vars(CompleteEOF)
    /\ WF_vars(SearchExit({-1}))
    /\ WF_vars(MetaDotExit({-1}))
    /\ WF_vars(LiteralRead({}))
    /\ WF_vars(EscStep(-1))
    /\ WF_vars(pc = "switch" /\ KeyInsert({91}))

SpecEOF == Init /\ [][NextEOF]_vars /\ FairEOF

\* what the terminal holds when fd_read() is called: "a", ENTER, Ctrl-B, the
\* sequences of U+00E9, U+20AC and U+1F600, sequences cut short or without
\* their continuation bytes, a continuation byte, nothing
ReadInputs ==
    {<<97>>, <<13>>, <<2>>, <<195, 169>>, <<226, 130, 172>>, <<240, 159, 152, 128>>,
     <<195>>, <<195, 97>>, <<226, 130>>, <<240, 159, 152>>, <<128>>, <<>>}

\* a session that reads its events byte by byte
NextRead ==
    \/ LinenoiseStart
    \/ FdRead(ReadInputs)
    \/ KeyInsert({97, 233, 8364, 195})
    \/ KeyLeft
    \/ KeyEnter
    \/ KeyEOF

SpecRead == Init /\ [][NextRead]_vars

\* the bytes a terminal sends behind ESC: ESC, "[", "O", "D", "3", "~", "a"
EscBytes == {27, 91, 79, 68, 51, 126, 97}

\* a session whose keys reach check_special() byte by byte
NextEscape ==
    \/ LinenoiseStart
    \/ KeyEscape
    \/ EscRead(EscBytes)
    \/ SwitchIgnored
    \/ KeyInsert(EscBytes \ {27})
    \/ KeyLeft
    \/ KeyDelete
    \/ KeyEnter
    \/ KeyEOF

SpecEscape == Init /\ [][NextEscape]_vars

\* the prompts a line is drawn behind: none, "> " and a bold ">"
Prompts == {<<>>, Prompt, <<27, 91, 49, 109, 62>>}

\* the characters of a drawn line: a letter, a control character, two bytes
Shown == {97, TAB, 233}

\* the lines of at most n characters of Shown, as byte strings
RECURSIVE ShownLines(_)
ShownLines(n) ==
    IF n = 0 THEN {<<>>}
    ELSE ShownLines(n - 1)
         \cup {l \o utf8_fromunicode(ch) : l \in ShownLines(n - 1), ch \in Shown}

\* a session in the main loop of linenoiseEdit(), on a terminal of 3 to MaxCols
\* columns, behind one of Prompts: the line and the cursor are any the keys
\* can produce
InitRefresh ==
    /\ history = <<<<>>>>
    /\ history_max_len = LINENOISE_DEFAULT_HISTORY_MAX_LEN
    /\ pc = "edit"
    /\ \E l \in ShownLines(MaxShown), w \in 3..MaxCols, p \in Prompts :
         LET cur == set_current([NewCurrent EXCEPT
                                    !.buf = [i \in 1..(2 * MaxShown + 2) |-> 0],
                                    !.prompt = p, !.cols = w], l)
         IN  \E at \in 0..cur.chars : current = [cur EXCEPT !.pos = at]
    /\ history_index = 0
    /\ c = 0
    /\ result = Null
    /\ errno = 0
    /\ ret = [call |-> "none", value |-> 0]
    /\ completionCallback = "NULL"
    /\ list_all_completions = 0
    /\ histfile = Null
    /\ cvec = <<>>
    /\ loc = NoLocals
    /\ tty = [rawmode |-> 1, attr |-> "raw", orig_termios |-> "cooked", fails |-> FALSE,
             eof |-> FALSE]

\* insert_char(current, current->pos, ch) on that terminal, whose width
\* getWindowSize() finds unchanged
ApplyInsertChar(S) ==
    /\ pc = "edit"
    /\ current.chars < MaxShown
    /\ \E ch \in S : current' = insert_char(current, current.pos, ch).cur
    /\ UNCHANGED <<history, history_max_len, pc, history_index, c, result, errno,
                   ret, completionCallback, list_all_completions, histfile, cvec,
                   loc, tty>>

\* remove_char(current, pos) for the character before or under the cursor
ApplyRemoveChar ==
    /\ pc = "edit"
    /\ \E pos \in {current.pos - 1, current.pos} :
         /\ remove_char(current, pos).ret # 0
         /\ current' = remove_char(current, pos).cur
    /\ UNCHANGED <<history, history_max_len, pc, history_index, c, result, errno,
                   ret, completionCallback, list_all_completions, histfile, cvec,
                   loc, tty>>

NextRefresh ==
    \/ ApplyInsertChar(Shown)
    \/ ApplyRemoveChar

SpecRefresh == InitRefresh /\ [][NextRefresh]_vars

-----------------------------------------------------------------------------
(* Claims *)

\* the text of the edit buffer: bytes[0 .. len)
Text(cur) == SubSeq(cur.buf, 1, cur.len)

\* C1: when the main dispatch receives ENTER, linenoise() returns a string equal
\* to the edit buffer's contents at that moment, and the history loses its tail
\* entry (its length decreases by one).
C1_EnterReturnsBuffer ==
    [][KeyEnter => /\ result' = Text(current)
                   /\ Len(history') = Len(history) - 1]_vars

\* C2: at every point of an edit session the byte at index len of the edit buffer
\* is 0, so that the buffer read as a C string has exactly len bytes.
C2_BufferTerminated ==
    pc = "edit" => /\ Byte(current.buf, current.len) = 0
                   /\ strlen(current.buf) = current.len

\* C3: at every point of an edit session, after any sequence of key events, chars
\* is the number of scalars in bytes[0 .. len) and 0 <= pos <= chars.
C3_CharsAndCursor ==
    pc = "edit" => /\ current.chars = utf8_strlen(current.buf, current.len)
                   /\ 0 <= current.pos /\ current.pos <= current.chars


\* the scalars C4 inserts: those the user types, TAB and the euro sign (3 bytes)
Scalars == Printable \cup {TAB, 8364}

\* insert_char(pos, ch) and then remove_char(pos) on cur leave its text, len and chars
RoundTrip(cur, pos, ch) ==
    LET q == remove_char(insert_char(cur, pos, ch).cur, pos).cur
    IN  Text(q) = Text(cur) /\ q.len = cur.len /\ q.chars = cur.chars

\* C4 as stated: for every buffer state, every pos in [0, chars] and every scalar,
\* insert_char(pos, c) followed by remove_char(pos) restores the text, len and chars.
C4_RoundTripAlways ==
    pc = "edit" =>
        \A pos \in 0..current.chars : \A ch \in Scalars : RoundTrip(current, pos, ch)

\* C4 amended: the same whenever insert_char inserts (it returns non-zero: there
\* is room for the scalar's bytes).
C4_RoundTripWhenInserted ==
    pc = "edit" =>
        \A pos \in 0..current.chars : \A ch \in Scalars :
            insert_char(current, pos, ch).ret # 0 => RoundTrip(current, pos, ch)

\* a buffer that holds a two-byte scalar with the cursor before a character, and
\* room for one more byte: 'a' is inserted at the cursor and removed again
C4_Witness ==
    /\ pc = "edit"
    /\ current.chars < current.len
    /\ current.pos < current.chars
    /\ insert_char(current, current.pos, 97).ret # 0
    /\ remove_char(insert_char(current, current.pos, 97).cur, current.pos).ret # 0

\* C5 as stated: when the read of the next event fails or reaches end of input,
\* linenoise() returns null, whatever the buffer holds.
C5_EofReturnsNull ==
    [][KeyEOF => result' = Null]_vars

\* C5 amended: when the read of the next event fails or reaches end of input,
\* linenoise() returns a string, not null: the edit buffer read as a C string (the
\* empty string when the buffer is empty), and the history keeps every entry.
C5_EofReturnsBuffer ==
    [][KeyEOF => /\ result' # Null
                 /\ result' = strdup(current.buf)
                 /\ history' = history]_vars

\* a session ended by a failed read returned the text typed so far
C5_Witness ==
    pc = "idle" /\ c = -1 /\ result # Null /\ Len(result) > 0

\* C6: Ctrl-C in the main dispatch ends the session with the interrupted error
\* (errno EAGAIN, linenoise() returns null) and leaves the history as it was just
\* before the key: the tail entry is neither removed nor changed.
C6_CtrlCKeepsHistory ==
    [][KeyCtrlC => /\ pc' = "idle"
                   /\ result' = Null
                   /\ errno' = EAGAIN
                   /\ history' = history]_vars

\* a session ended by Ctrl-C, its tail entry and an older one still in the history
C6_Witness ==
    /\ pc = "idle" /\ c = CtrlC /\ result = Null /\ errno = EAGAIN
    /\ Len(history) >= 2

\* C7: Ctrl-D with an empty buffer ends the session with a null result and removes
\* the scratch (tail) history entry; with a non-empty buffer it removes the
\* character at the cursor exactly as DELETE does and the session goes on.
C7_CtrlD ==
    [][KeyCtrlD =>
        IF current.len = 0
        THEN /\ pc' = "idle"
             /\ result' = Null
             /\ history' = SubSeq(history, 1, Len(history) - 1)
        ELSE /\ pc' = "edit"
             /\ current' = SpecialDelete(current)
             /\ history' = history
             /\ history_index' = history_index]_vars

\* Ctrl-D has removed a character inside the line and the session goes on
C7_Witness ==
    /\ pc = "edit" /\ c = CtrlD
    /\ current.pos > 0 /\ current.pos < current.chars

NoAdjacentEqual(h) == \A i \in 1..(Len(h) - 1) : h[i] # h[i + 1]

\* C8: history_add never creates two adjacent equal entries: on a history without
\* two adjacent equal entries the history after history_add(line) has none, and an
\* add of a line equal to the last entry returns false and changes nothing.
C8_AddNoAdjacentEqual ==
    /\ NoAdjacentEqual(history)
    /\ \A line \in HistLines :
          LET r == linenoiseHistoryAdd(history, history_max_len, line)
          IN  /\ NoAdjacentEqual(r.history)
              /\ (Len(history) > 0 /\ line = history[Len(history)])
                    => (r.ret = 0 /\ r.history = history)

\* an add was rejected on a full history of three entries
C8_Witness ==
    /\ ret = [call |-> "linenoiseHistoryAdd", value |-> 0]
    /\ Len(history) = 3 /\ history_max_len = 3

\* C9: after any sequence of history_add, history_set_max_len, history_load and
\* edit sessions the number of entries is between 0 and the maximum; a session
\* always has a tail entry to drop.
C9_SizeWithinMax ==
    /\ Len(history) <= history_max_len
    /\ pc = "edit" => Len(history) >= 1

\* a session ended with ENTER on a history that is full again after a load
C9_Witness ==
    /\ pc = "idle" /\ c = ENTER
    /\ ret.call = "linenoiseHistoryLoad"
    /\ Len(history) = history_max_len

\* C10: history_add(line) on a full history whose last entry differs from line
\* drops the oldest entry, keeps the others in order, appends line and returns
\* true; below capacity it appends line and drops nothing.
C10_AddAtCapacity ==
    \A line \in HistLines :
        LET r == linenoiseHistoryAdd(history, history_max_len, line)
            n == Len(history)
        IN  (n = 0 \/ line # history[n]) =>
                /\ r.ret = 1
                /\ r.history = (IF n = history_max_len
                                THEN SubSeq(history, 2, n) ELSE history) \o <<line>>

\* an accepted add left a full history of three different entries
C10_Witness ==
    /\ ret = [call |-> "linenoiseHistoryAdd", value |-> 1]
    /\ Len(history) = 3 /\ history_max_len = 3
    /\ history[1] # history[3]

\* C11: history_set_max_len(n) with n >= 1 smaller than the entry count keeps exactly
\* the n newest entries in their order (the count becomes n); with n < 1 it reports
\* failure and changes neither the maximum nor the entries.
C11_SetMaxLen ==
    \A n \in -1..(MaxHistory + 1) :
        LET r == linenoiseHistorySetMaxLen(history, history_max_len, n)
            k == Len(history)
        IN  IF n < 1
            THEN r.ret = 0 /\ r.max = history_max_len /\ r.history = history
            ELSE /\ r.ret = 1 /\ r.max = n
                 /\ n < k => /\ Len(r.history) = n
                             /\ \A j \in 1..n : r.history[j] = history[k - n + j]

\* history_set_max_len has cut a history to its two newest entries, which differ
\* from each other
C11_Witness ==
    /\ ret = [call |-> "linenoiseHistorySetMaxLen", value |-> 1]
    /\ history_max_len = 2 /\ Len(history) = 2
    /\ history[1] # <<>> /\ history[2] # <<>>

\* C12: history_save followed by history_load into an empty history reproduces the
\* saved entries exactly and in order, for entries (no two adjacent equal, count <=
\* max) that hold backslash, LF and CR at any position.
C12_SaveLoadRoundTrip ==
    [][HostHistorySave =>
          linenoiseHistoryLoad(<<>>, history_max_len, histfile') = history]_vars

\* list without its entry number k
RemoveAt(list, k) == SubSeq(list, 1, k - 1) \o SubSeq(list, k + 1, Len(list))

\* C13: after any sequence of add_completion calls on an empty list, the list is
\* non-decreasing under strcasecmp, and every add puts in the added string once and
\* keeps the others, so the list holds each string as often as it was added.
C13_SortedAndComplete ==
    /\ \A i \in 1..(Len(cvec) - 1) : strcasecmp(cvec[i], cvec[i + 1]) <= 0
    /\ \A str \in CompStrings :
          LET r == linenoiseAddCompletion(cvec, str)
          IN  /\ \A i \in 1..(Len(r) - 1) : strcasecmp(r[i], r[i + 1]) <= 0
              /\ \E k \in 1..Len(r) : r[k] = str /\ RemoveAt(r, k) = cvec

\* a full list that holds a string twice and two strings between which strcasecmp
\* tells a difference
C13_Witness ==
    /\ Len(cvec) = MaxCompletions
    /\ \E i \in 1..(Len(cvec) - 1) : cvec[i] = cvec[i + 1]
    /\ \E i \in 1..(Len(cvec) - 1) : strcasecmp(cvec[i], cvec[i + 1]) < 0

\* C14 as stated: a string that compares equal, case-insensitively, to entries of
\* the list is placed after them: each of those entries keeps its place.
C14_StableOnTies ==
    \A str \in CompStrings :
        LET r == linenoiseAddCompletion(cvec, str)
        IN  \A j \in 1..Len(cvec) : strcasecmp(str, cvec[j]) = 0 => r[j] = cvec[j]

\* C14 amended: such a string is placed directly before the entries it compares
\* equal to, which all move one slot up: equal entries are in the reverse of the
\* order in which they were added.
C14_NewBeforeEqual ==
    \A str \in CompStrings :
        LET r == linenoiseAddCompletion(cvec, str)
            eq == {j \in 1..Len(cvec) : strcasecmp(str, cvec[j]) = 0}
        IN  /\ \A j \in eq : r[j + 1] = cvec[j]
            /\ eq # {} => \E k \in eq : r[k] = str /\ \A j \in eq : k <= j

\* a list where "A" stands before "a" and "b" before "B": of each pair the first
\* was added last
C14_Witness ==
    /\ \E i \in 1..(Len(cvec) - 1) : cvec[i] = <<65>> /\ cvec[i + 1] = <<97>>
    /\ \E i \in 1..(Len(cvec) - 1) : cvec[i] = <<98>> /\ cvec[i + 1] = <<66>>

\* the rotation of example.c's completions is under way for the buffer "h"
RotatingH ==
    /\ pc = "complete"
    /\ completionCallback = "example_completion"
    /\ strdup(current.buf) = <<104>>

\* C15, as stated: in rotation mode with the completions hello and hello there
\* offered for h, the ENTER of the input h TAB TAB ENTER, read after the second
\* TAB, leaves h as the buffer, and h is what the session commits
C15_CommitsOriginal ==
    [][RotatingH /\ loc.i = 1 /\ c' = ENTER => strdup(current'.buf) = <<104>>]_vars

\* C15, amended: in rotation mode with the completions hello and hello there
\* offered for h, the first TAB after h, the cursor behind it, displays hello, the second hello there
\* and a third the original h; ENTER after the second TAB makes hello there the
\* buffer and ENTER after the third leaves h; the session commits the buffer
\* ENTER finds
C15_CommitsDisplayed ==
    [][/\ (/\ pc = "edit" /\ c' = TAB /\ completionCallback = "example_completion"
           /\ list_all_completions = 0 /\ strdup(current.buf) = <<104>>
           /\ current.pos = current.chars)
          => pc' = "complete" /\ Displayed' = Hello
       /\ RotatingH /\ loc.i = 0 /\ c' = TAB => Displayed' = HelloThere
       /\ RotatingH /\ loc.i = 1 /\ c' = TAB => Displayed' = <<104>>
       /\ RotatingH /\ loc.i = 1 /\ c' = ENTER
          => pc' = "process_char" /\ strdup(current'.buf) = HelloThere
       /\ RotatingH /\ loc.i = 2 /\ c' = ENTER
          => pc' = "process_char" /\ strdup(current'.buf) = <<104>>
       /\ pc = "process_char" /\ c = ENTER /\ pc' = "idle"
          => result' = strdup(current.buf)]_vars

\* a session of the rotation mode has committed hello there
C15_Witness ==
    /\ pc = "idle"
    /\ completionCallback = "example_completion"
    /\ list_all_completions = 0
    /\ result = HelloThere

\* C16: in rotation mode with n >= 1 completions the TAB that starts the
\* completion displays completion 0; each further TAB sets i to (i+1) mod (n+1),
\* and index n displays the original buffer; any event other than TAB or ESCAPE
\* (a printable scalar, a control character, or a special key such as an arrow)
\* read while completion i < n is displayed makes completion i the edit buffer
\* and is then dispatched as a normal key.  A special key is an event of the
\* switch with a code of its own; ESC followed by a plain byte is the ESCAPE case.
\* A completion longer than the line buffer is the buffer as far as it fits
C16_RotationAccepts ==
    [][/\ pc = "edit" /\ pc' = "complete"
          => Len(cvec') >= 1 /\ loc'.i = 0 /\ Displayed' = cvec'[1]
       /\ pc = "complete" /\ c' = TAB
          => /\ pc' = "complete"
             /\ loc'.i = (loc.i + 1) % (Len(cvec) + 1)
             /\ loc'.i = Len(cvec) => Displayed' = strdup(current.buf)
             /\ loc'.i < Len(cvec) => Displayed' = cvec[loc'.i + 1]
       /\ (/\ pc = "complete" /\ loc.i < Len(cvec)
           /\ pc' # "complete"
           /\ \/ pc' \in {"process_char", "edit"}
              \/ pc' = "switch" /\ c' \in {SPECIAL_LEFT, SPECIAL_RIGHT, SPECIAL_HOME})
          => /\ strdup(current'.buf) = strdup(set_current(current, cvec[loc.i + 1]).buf)
             /\ Len(cvec[loc.i + 1]) < bufmax(current)
                => strdup(current'.buf) = cvec[loc.i + 1]
             /\ pc' \in {"process_char", "switch", "edit"}]_vars

\* the bytes the buffer cur holds: buf[0..len)
Contents(cur) == SubSeq(cur.buf, 1, cur.len)

\* the byte index of the cursor of cur
CursorByte(cur) == utf8_index(cur.buf, cur.pos)

\* the token left of the cursor of cur: the bytes after the last space before
\* the cursor, up to the cursor
TokenStart(cur) == word_start(cur.buf, CursorByte(cur) - 1, CursorByte(cur))

Token(cur) == SubSeq(cur.buf, TokenStart(cur) + 1, CursorByte(cur))

\* the longest string every string of the non-empty list lc starts with
LongestCommonPrefix(lc) ==
    LET common == {j \in 0..Len(lc[1]) :
                      \A k \in 1..Len(lc) : IsPrefix(SubSeq(lc[1], 1, j), lc[k])}
    IN  SubSeq(lc[1], 1, CHOOSE j \in common : \A o \in common : o <= j)

\* the buffer cur with its token replaced by str, and then by str and a space
Extended(cur, str) ==
    SubSeq(cur.buf, 1, TokenStart(cur)) \o str
        \o SubSeq(cur.buf, CursorByte(cur) + 1, cur.len)

ExtendedSpace(cur, str) ==
    SubSeq(cur.buf, 1, TokenStart(cur)) \o str \o <<32>>
        \o SubSeq(cur.buf, CursorByte(cur) + 1, cur.len)

\* TAB is read in listing mode, every completion the callback returns starts
\* with the token left of the cursor, and the buffer has room for the missing
\* suffix and a space
ListingTab ==
    /\ pc = "edit" /\ c' = TAB /\ pc' = "edit"
    /\ list_all_completions # 0
    /\ completionCallback # "NULL"
    /\ Len(CallCompletion(current)) >= 1
    /\ \A k \in 1..Len(CallCompletion(current)) :
          IsPrefix(Token(current), CallCompletion(current)[k])
    /\ has_room(current, Len(LongestCommonPrefix(CallCompletion(current)))
                              - Len(Token(current)) + 1)

\* C17: in listing mode, when every completion returned by the callback starts
\* with the token left of the cursor, TAB extends that token to the longest
\* common prefix of all completions by inserting the missing suffix at the
\* cursor and leaves the rest of the buffer unchanged; with two or more
\* completions nothing else is inserted, and with one at most a space after it
C17_ExtendsToCommonPrefix ==
    [][ListingTab =>
          LET lcp == LongestCommonPrefix(CallCompletion(current))
          IN  IF Len(CallCompletion(current)) >= 2
              THEN Contents(current') = Extended(current, lcp)
              ELSE Contents(current') \in
                      {Extended(current, lcp), ExtendedSpace(current, lcp)}]_vars

\* str occurs in line at byte offset off
OccursAt(line, str, off) ==
    off + Len(str) <= Len(line) /\ SubSeq(line, off + 1, off + Len(str)) = str

Contains(line, str) == \E off \in 0..Len(line) : OccursAt(line, str, off)

\* the number of scalars that start in the first off bytes of line
ScalarsBefore(line, off) ==
    Cardinality({i \in 1..off : line[i] < 128 \/ line[i] >= 192})

\* the scalar index where str first occurs in line, which contains it
FirstOccurrence(line, str) ==
    ScalarsBefore(line, CHOOSE off \in 0..Len(line) :
                           /\ OccursAt(line, str, off)
                           /\ \A q \in 0..Len(line) : OccursAt(line, str, q) => off <= q)

UpThenDown(h, index, cur) ==
    LET up == history_navigation(h, index, cur, HistoryDir(SPECIAL_UP))
    IN  history_navigation(up.history, up.index, up.cur, HistoryDir(SPECIAL_DOWN)).cur

\* C19: history navigation preserves edits: from any history index with buffer
\* contents B and at least one older entry, moving to the older entry (UP) and
\* then back (DOWN) restores the buffer contents B; and in a fresh session UP
\* followed by ENTER returns the most recently added history line, the tail of
\* the history the session starts with
C19_NavigationPreservesEdits ==
    [][/\ pc = "edit" /\ history_index + 1 < history_len
          => Contents(UpThenDown(history, history_index, current)) = Contents(current)
       /\ pc = "idle" /\ pc' = "edit" /\ Len(history) >= 1
          => strdup(history_navigation(history', history_index', current',
                                       HistoryDir(SPECIAL_UP)).cur.buf)
                = history[Len(history)]]_vars

\* the last space-delimited token of line: its longest end without a space
LastToken(line) ==
    LET ends == {k \in 0..Len(line) : \A i \in (Len(line) - k + 1)..Len(line) : line[i] # 32}
    IN  SubSeq(line, Len(line) - (CHOOSE k \in ends : \A o \in ends : o <= k) + 1, Len(line))

\* the bytes of the buffer cur before its character number pos, and from its
\* cursor on
BeforeChar(cur, pos) == SubSeq(cur.buf, 1, utf8_index(cur.buf, pos))

AfterCursor(cur) == SubSeq(cur.buf, CursorByte(cur) + 1, cur.len)

\* C20: the first META_DOT inserts at the cursor the last space-delimited token
\* of the history entry just before the scratch entry; each META_DOT pressed
\* immediately after another removes exactly the token inserted by the previous
\* press and inserts the token of the next-older entry at the same position,
\* leaving the buffer text before and after the insertion point unchanged (where
\* the buffer had room for the previous token and has room for the next)
C20_MetaDotReplaces ==
    [][/\ (/\ pc # "meta_dot" /\ pc' = "meta_dot" /\ c' = SPECIAL_META_DOT
           /\ has_room(current, Len(LastToken(history[history_len - 1]))))
          => Contents(current') = BeforeChar(current, current.pos)
                                     \o LastToken(history[history_len - 1])
                                     \o AfterCursor(current)
       /\ (/\ pc = "meta_dot" /\ c' = SPECIAL_META_DOT
           /\ loc.index + 1 < history_len
           /\ SubSeq(current.buf, utf8_index(current.buf, loc.ppos) + 1, CursorByte(current))
                 = LastToken(history[history_len - loc.index])
           /\ Len(BeforeChar(current, loc.ppos)) + Len(AfterCursor(current))
                 + Len(LastToken(history[history_len - loc.index - 1])) < bufmax(current) - 1)
          => Contents(current') = BeforeChar(current, loc.ppos)
                                     \o LastToken(history[history_len - loc.index - 1])
                                     \o AfterCursor(current)]_vars

Drawn(cur) ==
    [row |-> Screen(cur.prompt, cur).row, cursor |-> Screen(cur.prompt, cur).cursor]

\* the columns of the characters of the drawn window left of the cursor: one
\* each, two for a control character
ColumnsLeftOfCursor(cur) ==
    LET w == refresh_window(cur.prompt, cur)
    IN  w.pos + control_chars(cur.buf, w.off, w.pos)

\* C22: after a refresh behind a prompt narrower than the terminal, the columns
\* written for the prompt and the visible part of the buffer (one per scalar,
\* two per control character) do not exceed cols, and the cursor stands at the
\* prompt's columns plus the columns of the visible characters left of it,
\* which is below cols
C22_RefreshFits ==
    prompt_chars(current.prompt) < current.cols
        => LET scr == Screen(current.prompt, current)
           IN  /\ scr.written <= current.cols
               /\ scr.cursor = prompt_chars(current.prompt) + ColumnsLeftOfCursor(current)
               /\ scr.cursor < current.cols

\* a line with a control character left of the cursor whose front is hidden
C22_Witness ==
    /\ prompt_chars(current.prompt) < current.cols
    /\ refresh_window(current.prompt, current).off > 0
    /\ control_chars(current.buf, refresh_window(current.prompt, current).off,
                     refresh_window(current.prompt, current).pos) > 0
    /\ current.pos < current.chars

\* the terminal shows what a full refresh of cur would leave
SameAsRefresh(scr, cur) == scr = Drawn(cur)

\* C24: whenever insert_char or remove_char takes its fast path (returns 2), the
\* terminal line and the cursor column are those a full refresh of the new
\* state produces, for every buffer, control characters included, and prompt
C24_FastPathRefines ==
    /\ \A ch \in Shown :
         LET r == insert_char(current, current.pos, ch)
         IN  r.ret = 2 => SameAsRefresh(fast_insert(Drawn(current), ch), r.cur)
    /\ \A pos \in 0..current.chars :
         LET r == remove_char(current, pos)
         IN  r.ret = 2 => SameAsRefresh(fast_remove(Drawn(current)), r.cur)

\* the same for lines without control characters
C24_FastPathPlain ==
    control_chars(current.buf, 0, current.chars) = 0 => C24_FastPathRefines

\* the columns the prompt and the characters before the cursor take
ColumnsBeforeCursor(cur) ==
    prompt_chars(cur.prompt) + cur.pos + control_chars(cur.buf, 0, cur.pos)

\* C28: a refresh hides leading characters only while the columns required left
\* of the cursor reach the width: when the prompt's columns plus those of the
\* characters before pos are below cols, the window starts at the first
\* character, however long the text behind the cursor is
C28_WindowStartsAtFirst ==
    ColumnsBeforeCursor(current) < current.cols
        => refresh_window(current.prompt, current).off = 0

\* C23: in every reachable state, during and after the sessions that walk the
\* history with UP, DOWN, Ctrl-P, Ctrl-N, PAGE_UP or PAGE_DOWN on an edited
\* buffer, no two adjacent history entries are equal
C23_NoAdjacentEqual == NoAdjacentEqual(history)

\* check_special() has read nothing since ESC and its read times out
LoneEscape == pc = "escape" /\ loc.step = "first" /\ EscStep(-1)

\* C25: when ESC is read and no byte follows within 50 ms, the event reader
\* returns the ESCAPE scalar (27), without consuming or waiting for a later byte
C25_LoneEscapeReturned ==
    [][LoneEscape => pc' = "switch" /\ c' = ESCAPE]_vars

\* check_special() has read "[" or "O" at once behind ESC and its next read
\* times out
CutShort == pc = "escape" /\ loc.step = "c2" /\ EscStep(-1)

\* C26: when an escape sequence is cut short by a timeout behind its introducer
\* (ESC [ or ESC O, then nothing for 50 ms), the event reader reports EOF and
\* the session ends, and no character of the partial sequence gets into the
\* buffer
C26_CutShortIsEOF ==
    [][CutShort => /\ c' = -1
                   /\ pc' = "idle"
                   /\ result' = strdup(current.buf)]_vars

\* seq is a lead byte that announces Len(seq) bytes, 1 to 4, and that many less
\* one continuation bytes
WellFormed(seq) ==
    /\ Len(seq) \in 1..4
    /\ \/ Len(seq) = 1 /\ seq[1] < 128
       \/ Len(seq) = 2 /\ seq[1] >= 192 /\ seq[1] < 224
       \/ Len(seq) = 3 /\ seq[1] >= 224 /\ seq[1] < 240
       \/ Len(seq) = 4 /\ seq[1] >= 240 /\ seq[1] < 248
    /\ \A i \in 2..Len(seq) : seq[i] >= 128 /\ seq[i] < 192

\* the scalar a well-formed sequence encodes
RECURSIVE Payload(_, _)
Payload(seq, i) ==
    IF i = 1 THEN (IF Len(seq) = 1 THEN seq[1]
                   ELSE IF Len(seq) = 2 THEN seq[1] - 192
                   ELSE IF Len(seq) = 3 THEN seq[1] - 224
                   ELSE seq[1] - 240)
    ELSE Payload(seq, i - 1) * 64 + (seq[i] - 128)

ScalarOf(seq) == Payload(seq, Len(seq))

\* C27: a lead byte that announces a sequence of n bytes, n from 1 to 4, and
\* its n-1 continuation bytes are decoded and returned as one scalar event;
\* only invalid sequences are reported as EOF
C27_ReadsOneScalar ==
    pc = "process_char" /\ WellFormed(loc.buf \o loc.left)
        => c = ScalarOf(loc.buf \o loc.left)

\* the same for the sequences of at most three bytes
C27_ReadsUpToThree ==
    pc = "process_char" /\ WellFormed(loc.buf \o loc.left) /\ Len(loc.buf \o loc.left) <= 3
        => c = ScalarOf(loc.buf \o loc.left)

\* the characters of the buffer cur, by position
CharsOf(cur) == [i \in 1..cur.chars |-> get_char(cur, i - 1)]

\* seq with the elements at i and i+1 exchanged
Exchanged(seq, i) ==
    [k \in DOMAIN seq |-> IF k = i THEN seq[i + 1] ELSE IF k = i + 1 THEN seq[i] ELSE seq[k]]

\* how often ch occurs in seq
Occurrences(seq, ch) == Cardinality({k \in DOMAIN seq : seq[k] = ch})

\* C29: Ctrl-T with the cursor at a position >= 1 exchanges two adjacent
\* characters, the last two with the cursor at the end of the line, else those at
\* pos-1 and pos, and changes neither the number of characters nor how often
\* each occurs, for every buffer length, a buffer of one character included
C29_TransposeExchanges ==
    pc = "edit" /\ current.pos >= 1
        => LET t      == Transpose(current)
               before == CharsOf(current)
               after  == CharsOf(t)
               at     == IF current.pos = current.chars THEN current.pos - 1
                         ELSE current.pos
           IN  /\ t.chars = current.chars
               /\ \A ch \in {before[k] : k \in DOMAIN before} \cup {after[k] : k \in DOMAIN after} :
                    Occurrences(after, ch) = Occurrences(before, ch)
               /\ current.chars >= 2 => after = Exchanged(before, at)

\* the same for buffers of two characters and more
C29_TransposeTwoOrMore == current.chars >= 2 => C29_TransposeExchanges

\* C30: the capture slot changes only when Ctrl-W, Ctrl-U or Ctrl-K removes at
\* least one character; every other key of a session, META_DOT, Ctrl-Y,
\* BACKSPACE, DELETE and the history-navigation keys among them, leaves it
\* unchanged
C30_CaptureFrame ==
    [][pc # "idle" /\ pc' # "idle" /\ current'.capture # current.capture
          => /\ c' \in {CtrlW, CtrlU, CtrlK}
             /\ current'.chars < current.chars]_vars

\* case ctrl('Y') on the buffer cur
Yank(cur) ==
    IF cur.capture # Null THEN insert_chars(cur, cur.pos, cur.capture).cur ELSE cur

\* the buffers Ctrl-U, Ctrl-K and Ctrl-W leave of cur
Cuts(cur) ==
    {remove_chars(cur, 0, cur.pos).cur,
     remove_chars(cur, cur.pos, cur.chars - cur.pos).cur,
     DeleteWord(cur)}

TabCompletes ==
    completionCallback # "NULL" /\ (list_all_completions # 0 \/ current.pos = current.chars)

\* the step has put a tab where the cursor was
TabInserted ==
    /\ current'.chars = current.chars + 1
    /\ current'.pos = current.pos + 1
    /\ get_char(current', current.pos) = TAB

\* C32: TAB invokes completion exactly when a callback is installed and the
\* cursor is at the end of the line or the listing mode is on; every other TAB
\* is inserted at the cursor as a literal tab
C32_TabCompletesOrInserts ==
    [][KeyTab => IF TabCompletes THEN ~TabInserted ELSE TabInserted]_vars

\* the same for the TABs read by the main loop into a buffer with room
C32_TabInMainLoop ==
    [][KeyTab /\ pc = "edit" /\ has_room(current, 1)
          => IF TabCompletes THEN ~TabInserted ELSE TabInserted]_vars

\* C33: in the reverse-i-search ctrl('G') and ctrl('C') leave the search with
\* an empty buffer and ctrl('J') leaves it with the buffer kept; either way no
\* interrupt is reported and the session goes on in the main loop, where the
\* event 0 that stands for the key changes nothing
C33_SearchAbandonAccept ==
    [][/\ SearchExit({CtrlG, CtrlC})
            => /\ Text(current') = <<>>
               /\ c' = 0 /\ pc' = "process_char" /\ errno' = errno /\ result' = result
       /\ SearchExit({CtrlJ})
            => /\ Text(current') = Text(current) /\ current'.pos = current.pos
               /\ c' = 0 /\ pc' = "process_char" /\ errno' = errno /\ result' = result
       /\ pc = "process_char" /\ c = 0
            => pc' = "edit" /\ current' = current /\ errno' = errno /\ result' = result]_vars

\* ctrl('J') has left a search that had found a line: the line is in the buffer
\* and the main loop is about to go on
C33_Witness ==
    pc = "process_char" /\ c = 0 /\ current.len > 0

\* the main loop's effect of ENTER, SPECIAL_LEFT and TAB on the event c that an
\* inner loop has sent to process_char
DispatchedAsInMainLoop ==
    /\ pc = "process_char" /\ c = ENTER
          => pc' = "idle" /\ result' = Text(current)
    /\ pc = "process_char" /\ c = SPECIAL_LEFT
          => /\ pc' = "edit" /\ Text(current') = Text(current)
             /\ current'.pos = IF current.pos > 0 THEN current.pos - 1 ELSE 0
    /\ pc = "process_char" /\ c = TAB
          => IF TabCompletes THEN ~TabInserted ELSE TabInserted

\* C34: in the reverse-i-search a key that is neither printable nor one of the
\* search's own keys (here ENTER, SPECIAL_LEFT, TAB, and an escape sequence
\* that makes no key) ends the search with the buffer kept, and the session
\* goes on with that key having the effect it has in the main loop
C34_SearchHandsKeyOver ==
    [][/\ SearchExit({ENTER, SPECIAL_LEFT, TAB}) \/ SearchUnrecognised(UnknownSeqs)
            => Text(current') = Text(current) /\ pc' = "process_char"
       /\ DispatchedAsInMainLoop]_vars

\* the same for ENTER and SPECIAL_LEFT alone
C34_EnterAndLeftHandedOver ==
    [][/\ SearchExit({ENTER, SPECIAL_LEFT})
            => Text(current') = Text(current) /\ pc' = "process_char" /\ c' \in {ENTER, SPECIAL_LEFT}
       /\ pc = "process_char" /\ c # TAB => DispatchedAsInMainLoop]_vars

\* C35: entering raw mode while it is on (linenoiseColumns() called by a
\* completion callback) leaves the saved attributes those of the terminal before
\* raw mode was first entered, so that the terminal is out of raw mode again
\* once linenoise() has returned
C35_EnableIdempotent ==
    /\ tty.orig_termios = "cooked"
    /\ pc = "idle" => tty.attr = "cooked" /\ tty.rawmode = 0

\* linenoiseColumns() called between two sessions leaves the terminal as it was
C35_ColumnsWhenIdle ==
    [][HostColumns => tty' = tty]_vars

\* C36: an escape sequence that check_special() does not know (ESC [ 1 5 ~)
\* neither ends the session nor changes the buffer, in the main loop, in the
\* reverse-i-search and right after SPECIAL_META_DOT
C36_UnrecognisedDiscarded ==
    [][\/ KeyUnrecognised(UnknownSeqs)
       \/ SearchUnrecognised(UnknownSeqs)
       \/ MetaDotUnrecognised(UnknownSeqs)
          => pc' # "idle" /\ Text(current') = Text(current)]_vars

\* the same in the main loop alone
C36_DiscardedInMainLoop ==
    [][KeyUnrecognised(UnknownSeqs) => pc' = "edit" /\ current' = current /\ result' = result]_vars

C37_WitnessEscape == pc = "switch" /\ c = ENTER

\* C38: once the input has ended, so that every further read fails, the
\* session terminates, in whatever state it was: the main loop, the rotation of
\* completions, the search, the loop of SPECIAL_META_DOT, the literal insert
\* or check_special() just after the ESC byte
C38_EOFTerminates == (tty.eof /\ pc # "idle") ~> (pc = "idle")

\* the same for every state but those of check_special()
C38_EOFTerminatesUnlessEscape == (tty.eof /\ pc \notin {"idle", "escape"}) ~> (pc \in {"idle", "escape"})

\* the history after an ENTER that finds the entries h
Popped(h) == SubSeq(h, 1, Len(h) - 1)

\* the last entry of h is not the empty string
TailNotEmpty(h) == Len(h) > 0 => h[Len(h)] # <<>>

\* C39: a session that ends with ENTER and saw no history-navigation key leaves
\* the history as it was before the session, provided it held fewer than
\* history_max_len entries whose last was not the empty string; a history that
\* held history_max_len entries loses its oldest entry to the scratch entry and
\* holds history_max_len - 1 entries after ENTER
C39_EnterKeepsHistory ==
    [][/\ pc = "idle" /\ pc' = "edit"
            => /\ Len(history) < history_max_len /\ TailNotEmpty(history)
                     => Popped(history') = history
               /\ Len(history) = history_max_len
                     => /\ Popped(history') = Tail(history)
                        /\ Len(Popped(history')) = history_max_len - 1
       /\ pc # "idle" /\ pc' # "idle" /\ ~KeyHistory => history' = history
       /\ KeyEnter => history' = Popped(history)]_vars

\* the same with the proviso on the last entry for the full history too
C39_EnterKeepsHistoryTailNotEmpty ==
    [][/\ pc = "idle" /\ pc' = "edit" /\ TailNotEmpty(history)
            => /\ Len(history) < history_max_len => Popped(history') = history
               /\ Len(history) = history_max_len
                     => /\ Popped(history') = Tail(history)
                        /\ Len(Popped(history')) = history_max_len - 1
       /\ pc # "idle" /\ pc' # "idle" /\ ~KeyHistory => history' = history
       /\ KeyEnter => history' = Popped(history)]_vars

\* C40: in the reverse-i-search the pattern never outgrows its buffer of 50
\* bytes: in every reachable state it is at most 49 bytes long
C40_PatternFits == pc = "search" => Len(loc.rbuf) <= sizeof_rbuf - 1

\* a pattern of one-byte characters stops at sizeof(rbuf) + 3 bytes
C40_PatternBelowGuard == pc = "search" => Len(loc.rbuf) <= sizeof_rbuf + 3

====
